---- MODULE Spec2Model ----
(***************************************************************************)
(* A model of the blockchain-scratch full node: value types, transitions,  *)
(* transactions, the six-stage block verification pipeline, the miner's    *)
(* BlockSource, the block-tree Ledger and the node's block intake.         *)
(*                                                                         *)
(* Scaling.  Coin is a u64 in the source; here it is an unsigned integer   *)
(* of CoinBits bits.  A BlockDigest is 32 bytes of 8 bits; here it is      *)
(* DigestLen bytes of ByteBits bits followed by a collision-free remainder *)
(* (the hashed source itself), so that two digests are equal exactly when  *)
(* the hashed byte strings are equal.  Signatures are modelled the same    *)
(* way: a signature names its signer and the message it was made over.     *)
(***************************************************************************)
EXTENDS Integers, Sequences, FiniteSets, TLC

VARIABLES
    block_tree,        \* Ledger.block_tree : slab_tree::Tree<VerifiedBlock>
    digest_map,        \* Ledger.digest_map : HashMap<BlockDigest, NodeId>
    overflow_checks,   \* build profile: TRUE = integer overflow panics, FALSE = it wraps
    mined,             \* the Miner's verified block between its two ledger locks
    last,              \* the last operation: its name, its argument and its result
    incoming_transactions,  \* main: Arc<Mutex<Vec<Transaction<Verified, Verified>>>>
    mutex,             \* the task that holds the guard of each of the two Mutex
    pc,                \* where each spawned task stands in its loop
    local,             \* the local variables of each spawned task
    publish_channel,   \* tokio::sync::mpsc::channel of VerifiedBlock
    mine_genesis_block \* FullnodeArgs.mine_genesis_block

node_vars == <<incoming_transactions, mutex, pc, local, publish_channel, mine_genesis_block>>

vars == <<block_tree, digest_map, overflow_checks, mined, last, node_vars>>

----------------------------------------------------------------------------
(* Bounds *)

CoinBits == 3
ByteBits == 2
DigestLen == 2
MaxHeight == 2
MaxBlocks == 2
MaxNonce == 1
MaxTime == 2
\* the node's expected difficulty (10 of 256 bits in the source), to scale
DIFFICULTY == 1

CoinModulus == 2 ^ CoinBits
HalfCoin == 2 ^ (CoinBits - 1)
ByteModulus == 2 ^ ByteBits
\* count_first_0_bits counts in a u8 and a digest has 32 * 8 = 256 = 2^8 bits
CountModulus == ByteBits * DigestLen

Address == {"A", "B", "M"}
NoAddress == "none"
AddressSeq == <<"A", "B", "M">>

----------------------------------------------------------------------------
(* Small helpers on sequences *)

RECURSIVE SumTo(_, _)
SumTo(s, n) == IF n = 0 THEN 0 ELSE s[n] + SumTo(s, n - 1)

SeqSum(s) == SumTo(s, Len(s))

RECURSIVE Flatten(_)
Flatten(ss) == IF ss = <<>> THEN <<>> ELSE Head(ss) \o Flatten(Tail(ss))

Range(s) == {s[i] : i \in DOMAIN s}

----------------------------------------------------------------------------
(* Coin: u64 arithmetic.  `a + b` panics on overflow when overflow checks  *)
(* are compiled in and wraps otherwise.  A value is [ok, v]; ok = FALSE is *)
(* the panic.                                                              *)

CoinOk(v) == [ok |-> TRUE, v |-> v]
CoinPanic == [ok |-> FALSE, v |-> 0]

CoinAdd(a, b, checked) ==
    IF ~a.ok \/ ~b.ok THEN CoinPanic
    ELSE IF a.v + b.v >= CoinModulus
         THEN IF checked THEN CoinPanic ELSE CoinOk((a.v + b.v) % CoinModulus)
         ELSE CoinOk(a.v + b.v)

CoinSub(a, b, checked) ==
    IF ~a.ok \/ ~b.ok THEN CoinPanic
    ELSE IF a.v < b.v
         THEN IF checked THEN CoinPanic ELSE CoinOk((a.v - b.v) % CoinModulus)
         ELSE CoinOk(a.v - b.v)

RECURSIVE CoinFold(_, _, _)
CoinFold(acc, qs, checked) ==
    IF qs = <<>> THEN acc
    ELSE CoinFold(CoinAdd(acc, CoinOk(Head(qs)), checked), Tail(qs), checked)

\* impl Sum<Coin> for Coin: fold from Coin::default()
CoinSum(qs, checked) == CoinFold(CoinOk(0), qs, checked)

----------------------------------------------------------------------------
(* Canonical encoding (SignatureSource::write_bytes): a flat sequence of   *)
(* tokens, one per fixed-width field, with no length prefix and no         *)
(* delimiter.  Token codes of different field types are disjoint.          *)

AddressIndex(a) == CHOOSE i \in DOMAIN AddressSeq : AddressSeq[i] = a

AddressBytes(a) == <<10 + AddressIndex(a)>>
CoinBytes(q) == <<100 + q>>
TimestampBytes(t) == <<200 + t>>
HeightBytes(h) == <<300 + h>>
DifficultyBytes(d) == <<400 + d>>
NonceBytes(n) == <<500 + n>>
DigestBytes(d) == <<600>> \o [i \in DOMAIN d.bytes |-> 700 + d.bytes[i]] \o d.pre \o <<601>>

----------------------------------------------------------------------------
(* Signature primitive (Ed25519) *)

sign(secret, message) == [by |-> secret, src |-> message]

verify(address, message, signature) ==
    signature.by = address /\ signature.src = message

----------------------------------------------------------------------------
(* Digest primitive (SHA-256) and Difficulty *)

ToBytes(n, len) == [i \in 1..len |-> (n \div (ByteModulus ^ (len - i))) % ByteModulus]

digest(input) ==
    [bytes |-> ToBytes((SeqSum(input) * 5 + Len(input)) % (ByteModulus ^ DigestLen), DigestLen),
     pre |-> input]

RECURSIVE count_first_0_bit_from(_, _)
count_first_0_bit_from(x, flag) ==
    IF flag = 0 THEN 0
    ELSE IF (x \div flag) % 2 = 0 THEN 1 + count_first_0_bit_from(x, flag \div 2)
         ELSE 0

count_first_0_bit(x) == count_first_0_bit_from(x, 2 ^ (ByteBits - 1))

\* The u8 counter: [ok, v]; an addition that leaves 0..CountModulus-1 panics or wraps.
CountAdd(count, c, checked) ==
    IF ~count.ok THEN count
    ELSE IF count.v + c >= CountModulus
         THEN IF checked THEN [ok |-> FALSE, v |-> 0]
              ELSE [ok |-> TRUE, v |-> (count.v + c) % CountModulus]
         ELSE [ok |-> TRUE, v |-> count.v + c]

RECURSIVE count_first_0_bits_from(_, _, _)
count_first_0_bits_from(count, bytes, checked) ==
    IF bytes = <<>> \/ ~count.ok THEN count
    ELSE LET c == count_first_0_bit(Head(bytes)) IN
         IF c = ByteBits
         THEN count_first_0_bits_from(CountAdd(count, ByteBits, checked), Tail(bytes), checked)
         ELSE CountAdd(count, c, checked)

count_first_0_bits(bytes, checked) ==
    count_first_0_bits_from([ok |-> TRUE, v |-> 0], bytes, checked)

\* Difficulty::verify_bytes: [ok, v] with ok = FALSE the panic of the counter
verify_bytes(d, bytes, checked) ==
    LET n == count_first_0_bits(bytes, checked) IN
    [ok |-> n.ok, v |-> n.ok /\ n.v >= d]

verify_digest_difficulty(d, dg, checked) == verify_bytes(d, dg.bytes, checked)

\* The number of leading zero bits of a digest, counted without any width
LeadingZeroBits(dg) ==
    LET bits == Flatten([i \in DOMAIN dg.bytes |->
                    [k \in 1..ByteBits |-> (dg.bytes[i] \div (2 ^ (ByteBits - k))) % 2]])
        ones == {i \in DOMAIN bits : bits[i] = 1}
    IN IF ones = {} THEN Len(bits)
       ELSE (CHOOSE i \in ones : \A j \in ones : i <= j) - 1

----------------------------------------------------------------------------
(* Results and errors *)

Ok == [e |-> "Ok", inner |-> ""]
Err(e) == [e |-> e, inner |-> ""]
ErrIn(e, inner) == [e |-> e, inner |-> inner]
Panic == Err("Panic")

----------------------------------------------------------------------------
(* Transition: Transfer | Generation (transition.rs; transfer.rs names the *)
(* same sum type TransactionBranch)                                        *)

build_transfer_signature_source(sender, receiver, quantity, timestamp) ==
    AddressBytes(sender) \o AddressBytes(receiver) \o CoinBytes(quantity)
        \o TimestampBytes(timestamp)

build_generation_signature_source(receiver, quantity, timestamp) ==
    AddressBytes(receiver) \o CoinBytes(quantity) \o TimestampBytes(timestamp)

\* Transfer::offer, with `now` the value Timestamp::now() returns
TransferOffer(sender, receiver, quantity, now) ==
    [kind |-> "Transfer", sender |-> sender, receiver |-> receiver,
     quantity |-> quantity, timestamp |-> now,
     sign |-> sign(sender, build_transfer_signature_source(sender, receiver, quantity, now))]

\* Generation::offer
GenerationOffer(receiver, quantity, now) ==
    [kind |-> "Generation", sender |-> NoAddress, receiver |-> receiver,
     quantity |-> quantity, timestamp |-> now,
     sign |-> sign(receiver, build_generation_signature_source(receiver, quantity, now))]

\* SignatureSource for Transition
TransitionBytes(t) ==
    IF t.kind = "Transfer"
    THEN build_transfer_signature_source(t.sender, t.receiver, t.quantity, t.timestamp)
    ELSE build_generation_signature_source(t.receiver, t.quantity, t.timestamp)

\* Transition::verify: TRUE when the signature verifies (else TransferError)
TransitionVerify(t) ==
    IF t.kind = "Transfer"
    THEN verify(t.sender, TransitionBytes(t), t.sign)
    ELSE verify(t.receiver, TransitionBytes(t), t.sign)

\* SignatureSource for &[T]: the items back to back
SliceBytes(Op(_), items) == Flatten([i \in DOMAIN items |-> Op(items[i])])

Quantities(ts) == [i \in DOMAIN ts |-> ts[i].quantity]

SelectTransfers(ts) == SelectSeq(ts, LAMBDA t : t.kind = "Transfer")

----------------------------------------------------------------------------
(* Transaction (transaction.rs) *)

build_signature_source(contractor, inputs, outputs, timestamp) ==
    AddressBytes(contractor) \o SliceBytes(TransitionBytes, inputs)
        \o SliceBytes(TransitionBytes, outputs) \o TimestampBytes(timestamp)

\* Transaction::offer, with `now` the value Timestamp::now() returns
TransactionOffer(contractor, inputs, outputs, now) ==
    [contractor |-> contractor, inputs |-> inputs, outputs |-> outputs,
     timestamp |-> now,
     sign |-> sign(contractor, build_signature_source(contractor, inputs, outputs, now))]

TransactionBytes(tx) ==
    build_signature_source(tx.contractor, tx.inputs, tx.outputs, tx.timestamp)

\* Transaction::verify_transaction: Ok or the first failing check's error
verify_transaction(tx, checked) ==
    LET input_sum == CoinSum(Quantities(tx.inputs), checked)
        output_sum_except_gen == CoinSum(Quantities(SelectTransfers(tx.outputs)), checked)
    IN
    IF tx.outputs = <<>> THEN Err("EmptyOutput")
    ELSE IF tx.inputs # <<>> /\ \E i \in DOMAIN tx.inputs :
                                   tx.inputs[i].receiver # tx.contractor
    THEN Err("SenderMismatch")
    ELSE IF \E i \in DOMAIN tx.outputs :
               tx.outputs[i].kind = "Transfer" /\ tx.outputs[i].sender # tx.contractor
    THEN Err("ReceiverMismatch")
    ELSE IF ~input_sum.ok \/ ~output_sum_except_gen.ok THEN Panic
    ELSE IF input_sum.v < output_sum_except_gen.v THEN Err("QuantityMismatch")
    ELSE IF \E t \in Range(tx.inputs) \cup Range(tx.outputs) : t.timestamp > tx.timestamp
    THEN Err("InvalidTimestamp")
    ELSE IF ~verify(tx.contractor, TransactionBytes(tx), tx.sign) THEN Err("InvalidSign")
    ELSE Ok

\* Transaction::verify_branch: Ok or Transfer(TransferError)
verify_branch(tx) ==
    IF \A t \in Range(tx.inputs) \cup Range(tx.outputs) : TransitionVerify(t)
    THEN Ok ELSE Err("Transfer")

\* Transaction::verify = verify_branch, then verify_transaction
TransactionVerify(tx, checked) ==
    IF verify_branch(tx) # Ok THEN Err("Transfer") ELSE verify_transaction(tx, checked)

----------------------------------------------------------------------------
(* Block (block.rs).  proof holds the six type-level flags of               *)
(* Block<VT, VTS, VU, VP, VDG, VDI>: TRUE is Verified, FALSE is Yet.        *)

Stages == {"VT", "VTS", "VU", "VP", "VDG", "VDI"}

AllYet == [s \in Stages |-> FALSE]
AllVerified == [s \in Stages |-> TRUE]

\* BlockHeight::previous: [some, h]
previous(height) ==
    IF height = 0 THEN [some |-> FALSE, h |-> 0] ELSE [some |-> TRUE, h |-> height - 1]

builde_digest_source_except_nonce(height, transactions, timestamp, previous_digest, difficulty) ==
    HeightBytes(height) \o SliceBytes(TransactionBytes, transactions)
        \o TimestampBytes(timestamp) \o DigestBytes(previous_digest)
        \o DifficultyBytes(difficulty)

build_digest_source_from_except_nonce(digest_source_except_nonce, nonce) ==
    digest_source_except_nonce \o NonceBytes(nonce)

\* build_digest_source that writes the nonce before the other fields
build_digest_source_nonce_first(height, transactions, timestamp, previous_digest, difficulty, nonce) ==
    NonceBytes(nonce) \o HeightBytes(height) \o SliceBytes(TransactionBytes, transactions)
        \o TimestampBytes(timestamp) \o DigestBytes(previous_digest)
        \o DifficultyBytes(difficulty)

build_digest_source(height, transactions, timestamp, previous_digest, difficulty, nonce) ==
    build_digest_source_from_except_nonce(
        builde_digest_source_except_nonce(height, transactions, timestamp,
                                          previous_digest, difficulty),
        nonce)

\* The fields of a block; Verified(stage) marks one more flag
Block(height, transactions, timestamp, previous_digest, difficulty, nonce, dg, proof) ==
    [height |-> height, transactions |-> transactions, timestamp |-> timestamp,
     previous_digest |-> previous_digest, difficulty |-> difficulty, nonce |-> nonce,
     digest |-> dg, proof |-> proof]

Verified(block, stage) == [block EXCEPT !.proof[stage] = TRUE]

Done(block) == [res |-> Ok, block |-> block]
Fail(e, block) == [res |-> e, block |-> block]

BlockInputs(block) == Flatten([i \in DOMAIN block.transactions |-> block.transactions[i].inputs])
BlockOutputs(block) == Flatten([i \in DOMAIN block.transactions |-> block.transactions[i].outputs])

\* Deserialize for Block<Yet, Yet, Yet, Yet, Yet, Yet>
Deserialize(inner) ==
    Block(inner.height, inner.transactions, inner.timestamp, inner.previous_digest,
          inner.difficulty, inner.nonce, inner.digest, AllYet)

\* The first error of Transaction::verify over the transactions, in order
RECURSIVE FirstTransactionError(_, _)
FirstTransactionError(transactions, checked) ==
    IF transactions = <<>> THEN Ok
    ELSE LET r == TransactionVerify(Head(transactions), checked) IN
         IF r # Ok THEN r ELSE FirstTransactionError(Tail(transactions), checked)

\* Stage T
verify_transaction_itself(block, checked) ==
    LET r == FirstTransactionError(block.transactions, checked) IN
    IF r = Panic THEN Fail(Panic, block)
    ELSE IF r # Ok THEN Fail(ErrIn("Transaction", r.e), block)
    ELSE Done(Verified(block, "VT"))

IsSorted(ts) == \A i \in 1..(Len(ts) - 1) : ts[i] <= ts[i + 1]

TimestampsOf(transactions) == [i \in DOMAIN transactions |-> transactions[i].timestamp]

\* Stage TR
verify_transaction_relation(block, gen_rule(_), checked) ==
    LET in_qty == CoinSum(Quantities(BlockInputs(block)), checked)
        o_qty == CoinSum(Quantities(BlockOutputs(block)), checked)
        r_qty == gen_rule(block.height)
        lhs == CoinAdd(in_qty, CoinOk(r_qty), checked)
    IN
    IF \E i \in DOMAIN block.transactions :
           block.transactions[i].timestamp > block.timestamp
    THEN Fail(Err("TransactionTimestamp"), block)
    ELSE IF ~IsSorted(TimestampsOf(block.transactions))
    THEN Fail(Err("TransactionTimestamp"), block)
    ELSE IF ~in_qty.ok \/ ~o_qty.ok \/ ~lhs.ok THEN Fail(Panic, block)
    ELSE IF lhs.v # o_qty.v THEN Fail(Err("TransactionQuantity"), block)
    ELSE Done(Verified(block, "VTS"))

\* verify_utxo that marks stage P as well
verify_utxo_marking_previous(block, all_utxo) ==
    IF all_utxo THEN Done(Verified(Verified(block, "VU"), "VP"))
    ELSE Fail(Err("Utxo"), block)

\* Stage U: utxo_judge is the answer of the caller's closure
verify_utxo(block, utxo_judge) ==
    IF utxo_judge THEN Done(Verified(block, "VU")) ELSE Fail(Err("Utxo"), block)

\* verify_previous_block that accepts a parent of the same timestamp
verify_previous_block_or_equal(block, digest_history, timestamp_history) ==
    IF block.height > 0
    THEN IF /\ digest_history # <<>> /\ timestamp_history # <<>>
            /\ digest_history[1] = block.previous_digest
            /\ timestamp_history[1] <= block.timestamp
         THEN [res |-> Ok, block |-> [block EXCEPT !.proof["VP"] = TRUE]]
         ELSE [res |-> [e |-> "Chain", inner |-> ""], block |-> block]
    ELSE [res |-> Ok, block |-> [block EXCEPT !.proof["VP"] = TRUE]]

\* Stage P (block.rs): the two lookups answer <<>> (None) or <<v>> (Some(v)) for
\* the previous height
verify_previous_block(block, digest_history, timestamp_history) ==
    IF previous(block.height).some
    THEN IF /\ digest_history # <<>> /\ timestamp_history # <<>>
            /\ digest_history[1] = block.previous_digest
            /\ timestamp_history[1] < block.timestamp
         THEN Done(Verified(block, "VP"))
         ELSE Fail(Err("Chain"), block)
    ELSE Done(Verified(block, "VP"))

\* Stage P as Ledger::verify_block calls it: one closure that answers yes or no
verify_previous_block_judge(block, previous_block_judge) ==
    IF previous_block_judge THEN Done(Verified(block, "VP")) ELSE Fail(Err("Chain"), block)

\* Stage D
verify_digest(block) ==
    LET dg == digest(build_digest_source(block.height, block.transactions, block.timestamp,
                                         block.previous_digest, block.difficulty, block.nonce))
    IN IF dg = block.digest THEN Done(Verified(block, "VDG")) ELSE Fail(Err("Digest"), block)

\* Stage X
verify_difficulty(block, expected_difficulty, checked) ==
    LET pow == verify_digest_difficulty(expected_difficulty, block.digest, checked) IN
    IF block.difficulty < expected_difficulty THEN Fail(Err("InsufficientDifficulty"), block)
    ELSE IF ~pow.ok THEN Fail(Panic, block)
    ELSE IF pow.v THEN Done(Verified(block, "VDI"))
    ELSE Fail(Err("PoWFailure"), block)

\* The reward rule the node passes to stage TR and to BlockSource::new
block_coin_generation_rule(height) == 1

----------------------------------------------------------------------------
(* BlockSource (the miner's candidate) *)

\* sorted_by_key(Transaction::timestamp): a stable sort
RECURSIVE InsertByTimestamp(_, _)
InsertByTimestamp(sorted, tx) ==
    IF sorted = <<>> THEN <<tx>>
    ELSE IF Head(sorted).timestamp <= tx.timestamp
         THEN <<Head(sorted)>> \o InsertByTimestamp(Tail(sorted), tx)
         ELSE <<tx>> \o sorted

RECURSIVE SortedByTimestamp(_, _)
SortedByTimestamp(sorted, rest) ==
    IF rest = <<>> THEN sorted
    ELSE SortedByTimestamp(InsertByTimestamp(sorted, Head(rest)), Tail(rest))

\* BlockSource::new; now is <<t1, t2, t3>>, what Timestamp::now() returns in
\* Generation::offer, in Transaction::offer and for the block
BlockSourceNew(height, transactions, previous_digest, difficulty, nonce,
               reward_receiver, gen_rule(_), now, checked) ==
    LET in_qty == CoinSum(Quantities(Flatten([i \in DOMAIN transactions |->
                                                  transactions[i].inputs])), checked)
        o_qty == CoinSum(Quantities(Flatten([i \in DOMAIN transactions |->
                                                 transactions[i].outputs])), checked)
        r_qty == CoinSub(CoinAdd(CoinOk(gen_rule(height)), in_qty, checked), o_qty, checked)
        gen_tx == TransactionOffer(reward_receiver, <<>>,
                                   <<GenerationOffer(reward_receiver, r_qty.v, now[1])>>, now[2])
        gen_res == verify_transaction(gen_tx, checked)
        sorted == SortedByTimestamp(<<>>, transactions \o <<gen_tx>>)
    IN
    IF ~r_qty.ok THEN [res |-> Panic]
    ELSE IF gen_res # Ok THEN [res |-> gen_res]
    ELSE [res |-> Ok,
          height |-> height, transactions |-> sorted, timestamp |-> now[3],
          previous_digest |-> previous_digest, difficulty |-> difficulty, nonce |-> nonce,
          digest_source_except_nonce |->
              builde_digest_source_except_nonce(height, sorted, now[3],
                                                previous_digest, difficulty)]

\* BlockSource::try_into_block: Ok with the block (only VT set), or Err(self)
try_into_block(source, checked) ==
    LET dg == digest(build_digest_source_from_except_nonce(
                         source.digest_source_except_nonce, source.nonce))
        pow == verify_digest_difficulty(source.difficulty, dg, checked)
    IN
    IF ~pow.ok THEN [res |-> Panic]
    ELSE IF pow.v
    THEN [res |-> Ok,
          block |-> Block(source.height, source.transactions, source.timestamp,
                          source.previous_digest, source.difficulty, source.nonce, dg,
                          [AllYet EXCEPT !["VT"] = TRUE])]
    ELSE [res |-> Err("Source"), source |-> source]

----------------------------------------------------------------------------
(* slab_tree::Tree<VerifiedBlock>: [root, nodes]; a NodeId is an index of  *)
(* nodes, 0 stands for None                                                 *)

EmptyTree == [root |-> 0, nodes |-> <<>>]

\* the slot of a node that Tree::remove has taken out: its NodeId is never
\* given to another node, and Tree::get answers None for it
Vacant == [data |-> <<>>, parent |-> 0, children |-> <<>>]

NodeIds(tree) == {id \in DOMAIN tree.nodes : tree.nodes[id] # Vacant}

\* Tree::set_root
set_root(tree, block) ==
    [root |-> Len(tree.nodes) + 1,
     nodes |-> Append(tree.nodes, [data |-> block, parent |-> 0, children |-> <<>>])]

\* NodeMut::append
append(tree, parent, block) ==
    LET id == Len(tree.nodes) + 1 IN
    [root |-> tree.root,
     nodes |-> Append([tree.nodes EXCEPT ![parent].children = Append(@, id)],
                      [data |-> block, parent |-> parent, children |-> <<>>])]

\* NodeRef::ancestors: the parent first, the root last, the node itself not included
RECURSIVE ancestors(_, _)
ancestors(tree, id) ==
    IF tree.nodes[id].parent = 0 THEN <<>>
    ELSE <<tree.nodes[id].parent>> \o ancestors(tree, tree.nodes[id].parent)

Reverse(s) == [i \in DOMAIN s |-> s[Len(s) + 1 - i]]

----------------------------------------------------------------------------
(* TransferHistory (ledger.rs): the UTXO list *)

\* TransferHistory::is_utxo
is_utxo(utxos, transition) == \E i \in DOMAIN utxos : utxos[i].sign = transition.sign

\* itertools all_unique over the signs of the block's inputs
all_unique(items) == \A i, j \in DOMAIN items : i # j => items[i] # items[j]

\* the loop of push_block over one transaction's inputs, then its outputs
RECURSIVE push_inputs(_, _)
push_inputs(next_utxos, inputs) ==
    IF inputs = <<>> THEN [res |-> Ok, utxos |-> next_utxos]
    ELSE IF \E i \in DOMAIN next_utxos : next_utxos[i] = Head(inputs)
         THEN push_inputs(SelectSeq(next_utxos, LAMBDA u : u # Head(inputs)), Tail(inputs))
         ELSE [res |-> Err("Unlisted"), utxos |-> next_utxos]

RECURSIVE push_outputs(_, _)
push_outputs(next_utxos, outputs) ==
    IF outputs = <<>> THEN [res |-> Ok, utxos |-> next_utxos]
    ELSE IF \E i \in DOMAIN next_utxos : next_utxos[i] = Head(outputs)
         THEN [res |-> Err("Collision"), utxos |-> next_utxos]
         ELSE push_outputs(Append(next_utxos, Head(outputs)), Tail(outputs))

RECURSIVE push_transactions(_, _)
push_transactions(next_utxos, transactions) ==
    IF transactions = <<>> THEN [res |-> Ok, utxos |-> next_utxos]
    ELSE LET i == push_inputs(next_utxos, Head(transactions).inputs) IN
         IF i.res # Ok THEN i
         ELSE LET o == push_outputs(i.utxos, Head(transactions).outputs) IN
              IF o.res # Ok THEN o ELSE push_transactions(o.utxos, Tail(transactions))

\* push_block that works on self.utxos in place
push_block_in_place(utxos, block) ==
    IF ~all_unique([i \in DOMAIN BlockInputs(block) |-> BlockInputs(block)[i].sign])
    THEN [res |-> Err("DoubleSpending"), utxos |-> utxos]
    ELSE push_transactions(utxos, block.transactions)

\* TransferHistory::push_block: [res, utxos]; utxos is replaced only on Ok
push_block(utxos, block) ==
    IF ~all_unique([i \in DOMAIN BlockInputs(block) |-> BlockInputs(block)[i].sign])
    THEN [res |-> Err("DoubleSpending"), utxos |-> utxos]
    ELSE LET r == push_transactions(utxos, block.transactions) IN
         IF r.res = Ok THEN r ELSE [res |-> r.res, utxos |-> utxos]

----------------------------------------------------------------------------
(* Ledger (ledger.rs) *)

\* Ledger::node_by_digest / node_mut_by_digest: the NodeId, 0 for None
node_by_digest(tree, map, dg) ==
    IF dg \in DOMAIN map /\ map[dg] \in NodeIds(tree) THEN map[dg] ELSE 0

\* Ledger::get: [some, block]
get(tree, map, dg) ==
    LET id == node_by_digest(tree, map, dg) IN
    IF id = 0 THEN [some |-> FALSE] ELSE [some |-> TRUE, block |-> tree.nodes[id].data]

\* Tree::remove(id, RemoveBehavior::DropChildren) of a node of the tree: the
\* node and all its descendants leave the tree, its parent loses one child;
\* root_after is what Tree::root answers from when the node was the root
remove(tree, id, root_after) ==
    [root |-> IF tree.root = id THEN root_after ELSE tree.root,
     nodes |-> [k \in DOMAIN tree.nodes |->
                  IF k = id \/ (tree.nodes[k] # Vacant /\ id \in Range(ancestors(tree, k)))
                  THEN Vacant
                  ELSE [tree.nodes[k] EXCEPT
                           !.children = SelectSeq(@, LAMBDA child : child # id)]]]

\* Ledger::remove_branch: [some, block, tree]; the digest map is not touched
remove_branch(tree, map, dg, root_after) ==
    IF dg \in DOMAIN map /\ map[dg] \in NodeIds(tree)
    THEN [some |-> TRUE, block |-> tree.nodes[map[dg]].data,
          tree |-> remove(tree, map[dg], root_after)]
    ELSE [some |-> FALSE, tree |-> tree]

\* HashMap::insert
insert(map, key, value) ==
    [k \in (DOMAIN map) \cup {key} |-> IF k = key THEN value ELSE map[k]]

\* The closure Ledger::verify_block hands to verify_previous_block
previous_block_judge(tree, previous_block, block) ==
    IF previous(block.height).some
    THEN previous_block # 0
         /\ tree.nodes[previous_block].data.height = previous(block.height).h
    ELSE previous_block = 0

\* "Build transfer history from genesis to previous block": [res, utxos]
RECURSIVE replay(_, _, _)
replay(tree, utxos, ids) ==
    IF ids = <<>> THEN [res |-> Ok, utxos |-> utxos]
    ELSE LET r == push_block(utxos, tree.nodes[Head(ids)].data) IN
         IF r.res # Ok THEN r ELSE replay(tree, r.utxos, Tail(ids))

transfer_history(tree, previous_block) ==
    replay(tree, <<>>,
           IF previous_block # 0 THEN Reverse(ancestors(tree, previous_block)) ELSE <<>>)

\* The closure Ledger::verify_block hands to verify_utxo
utxo_judge(utxos, transactions) ==
    LET inputs == Flatten([i \in DOMAIN transactions |-> transactions[i].inputs])
        outputs == Flatten([i \in DOMAIN transactions |-> transactions[i].outputs])
        cond_in == \A i \in DOMAIN inputs : is_utxo(utxos, inputs[i])
        cond_out == \A i \in DOMAIN outputs : ~is_utxo(utxos, outputs[i])
    IN cond_in /\ cond_out

\* Ledger::verify_block: stages P and U against the ledger
LedgerVerifyBlock(tree, map, block) ==
    LET previous_block == node_by_digest(tree, map, block.previous_digest)
        p == verify_previous_block_judge(block,
                 previous_block_judge(tree, previous_block, block))
        history == transfer_history(tree, previous_block)
    IN
    IF p.res # Ok THEN Fail(ErrIn("Block", p.res.e), block)
    ELSE IF history.res # Ok THEN Fail(ErrIn("Transfer", history.res.e), block)
    ELSE LET u == verify_utxo(p.block, utxo_judge(history.utxos, p.block.transactions)) IN
         IF u.res # Ok THEN Fail(ErrIn("Block", u.res.e), block) ELSE u

\* Ledger::entry without the checks for a duplicate
LedgerEntry_without_duplicate_check(tree, map, block) ==
    LET previous_node == node_by_digest(tree, map, block.previous_digest) IN
    IF previous(block.height).some
    THEN IF previous_node = 0 \/ tree.nodes[previous_node].data.height # previous(block.height).h
         THEN [res |-> Err("IsolatedBlock"), tree |-> tree, map |-> map]
         ELSE [res |-> Ok,
               tree |-> append(tree, previous_node, block),
               map |-> insert(map, block.digest, Len(tree.nodes) + 1)]
    ELSE [res |-> Ok,
          tree |-> set_root(tree, block),
          map |-> insert(map, block.digest, Len(tree.nodes) + 1)]

\* Ledger::entry that makes every block of height 0 the root
LedgerEntry_replacing_root(tree, map, block) ==
    LET previous_node == node_by_digest(tree, map, block.previous_digest) IN
    IF previous(block.height).some
    THEN IF previous_node = 0 \/ tree.nodes[previous_node].data.height # previous(block.height).h
         THEN [res |-> Err("IsolatedBlock"), tree |-> tree, map |-> map]
         ELSE IF \E i \in DOMAIN tree.nodes[previous_node].children :
                    tree.nodes[tree.nodes[previous_node].children[i]].data.digest = block.digest
         THEN [res |-> Err("DuplicatedBlock"), tree |-> tree, map |-> map]
         ELSE [res |-> Ok,
               tree |-> append(tree, previous_node, block),
               map |-> insert(map, block.digest, Len(tree.nodes) + 1)]
    ELSE [res |-> Ok,
          tree |-> set_root(tree, block),
          map |-> insert(map, block.digest, Len(tree.nodes) + 1)]

\* Ledger::entry without the height constraint
LedgerEntry_without_height_check(tree, map, block) ==
    LET previous_node == node_by_digest(tree, map, block.previous_digest) IN
    IF previous(block.height).some
    THEN IF previous_node = 0
         THEN [res |-> Err("IsolatedBlock"), tree |-> tree, map |-> map]
         ELSE IF \E i \in DOMAIN tree.nodes[previous_node].children :
                    tree.nodes[tree.nodes[previous_node].children[i]].data.digest = block.digest
         THEN [res |-> Err("DuplicatedBlock"), tree |-> tree, map |-> map]
         ELSE [res |-> Ok,
               tree |-> append(tree, previous_node, block),
               map |-> insert(map, block.digest, Len(tree.nodes) + 1)]
    ELSE IF tree.root = 0
         THEN [res |-> Ok,
               tree |-> set_root(tree, block),
               map |-> insert(map, block.digest, Len(tree.nodes) + 1)]
         ELSE [res |-> Err("DuplicatedGenesisBlock"), tree |-> tree, map |-> map]

\* Ledger::entry: [res, tree, map]
LedgerEntry(tree, map, block) ==
    LET unchanged(e) == [res |-> e, tree |-> tree, map |-> map]
        previous_node == node_by_digest(tree, map, block.previous_digest)
    IN
    IF previous(block.height).some
    THEN IF previous_node = 0 THEN unchanged(Err("IsolatedBlock"))
         ELSE IF tree.nodes[previous_node].data.height # previous(block.height).h
         THEN unchanged(Err("IsolatedBlock"))
         ELSE IF \E i \in DOMAIN tree.nodes[previous_node].children :
                    tree.nodes[tree.nodes[previous_node].children[i]].data.digest = block.digest
         THEN unchanged(Err("DuplicatedBlock"))
         ELSE [res |-> Ok,
               tree |-> append(tree, previous_node, block),
               map |-> insert(map, block.digest, Len(tree.nodes) + 1)]
    ELSE IF tree.root = 0
         THEN [res |-> Ok,
               tree |-> set_root(tree, block),
               map |-> insert(map, block.digest, Len(tree.nodes) + 1)]
         ELSE unchanged(Err("DuplicatedGenesisBlock"))

\* Ledger::search_latest_block: max_by_key over the values of a HashMap, whose
\* iteration order is not specified: any node of maximum height
search_latest_block(tree, map) ==
    {id \in Range(map) : \A other \in Range(map) :
        tree.nodes[other].data.height <= tree.nodes[id].data.height}

\* upstream_chain_from that starts at the parent of the block
upstream_chain_from_parent(tree, map, dg) ==
    IF node_by_digest(tree, map, dg) = 0 THEN <<>>
    ELSE ancestors(tree, node_by_digest(tree, map, dg))

\* Ledger::upstream_chain_from: the block, then its ancestors up to the root
upstream_chain_from(tree, map, dg) ==
    LET id == node_by_digest(tree, map, dg) IN
    IF id = 0 THEN <<>> ELSE <<id>> \o ancestors(tree, id)

\* `transfer_history.push_block(block).ok()` over the blocks: a block that
\* push_block refuses leaves the list as it was
RECURSIVE push_blocks_ok(_, _, _)
push_blocks_ok(tree, utxos, ids) ==
    IF ids = <<>> THEN utxos
    ELSE push_blocks_ok(tree, push_block(utxos, tree.nodes[Head(ids)].data).utxos, Tail(ids))

\* Ledger::build_utxos(digest, holder)
build_utxos(tree, map, dg, holder) ==
    SelectSeq(push_blocks_ok(tree, <<>>, Reverse(upstream_chain_from(tree, map, dg))),
              LAMBDA utxo : utxo.receiver = holder)

----------------------------------------------------------------------------
(* The values that arrive from the wire.  Any bytes can arrive; the ones   *)
(* enumerated here are well-signed and ill-signed transactions around one  *)
(* coin of A, and blocks built from them.                                  *)

Times == 1..MaxTime
Heights == 0..MaxHeight
Nonces == 0..MaxNonce
Difficulties == (DIFFICULTY - 1)..(DIFFICULTY + 1)

gA == GenerationOffer("A", 1, 1)
gB(t) == GenerationOffer("B", 1, t)
gA2 == GenerationOffer("A", 2, 1)
gZero == GenerationOffer("A", 0, 1)
gHalfA == GenerationOffer("A", HalfCoin, 1)
gHalfB == GenerationOffer("B", HalfCoin, 1)
tAB == TransferOffer("A", "B", 1, 1)
tAA == TransferOffer("A", "A", 1, 1)

\* pure coinbase transactions
CoinbaseA == TransactionOffer("A", <<>>, <<gA>>, 1)
CoinbaseB(t) == TransactionOffer("B", <<>>, <<gB(t)>>, t)
CoinbaseZero == TransactionOffer("A", <<>>, <<gZero>>, 1)
\* A spends its coin
Spend == TransactionOffer("A", <<gA>>, <<tAB>>, 1)
SpendAgain == TransactionOffer("A", <<gA>>, <<tAA>>, 1)
\* A spends its coin and issues coin to itself in the same transaction
SpendAndIssue == TransactionOffer("A", <<gA>>, <<gA2>>, 1)
\* issuance whose quantities add up to CoinModulus + 1
IssueMany == TransactionOffer("A", <<>>, <<gHalfA, gHalfB, gB(1)>>, 1)
\* a transaction signed by somebody else than its contractor
Forged == [CoinbaseA EXCEPT !.sign = sign("B", TransactionBytes(CoinbaseA))]

WireTransactionLists ==
    { <<CoinbaseA>>,
      <<Spend, CoinbaseB(1)>>,
      <<CoinbaseB(2), Spend>>,
      <<Spend, SpendAgain, CoinbaseB(1)>>,
      <<SpendAndIssue>>,
      <<CoinbaseZero, CoinbaseB(1)>>,
      <<IssueMany>>,
      <<Spend>>,
      <<Forged>> }

\* what the mempool can hold when the Miner takes its snapshot: verified transactions
MempoolSnapshots == { <<>>, <<Spend>>, <<CoinbaseB(1)>> }

EmptyDigest == digest(<<>>)

KnownDigests(tree) == {tree.nodes[i].data.digest : i \in NodeIds(tree)} \cup {EmptyDigest}

\* a block as it is decoded from the wire; when tamper is set the digest field
\* is the digest of the block with another nonce
WireBlock(height, transactions, timestamp, previous_digest, difficulty, nonce, tamper) ==
    Deserialize(
        [height |-> height, transactions |-> transactions, timestamp |-> timestamp,
         previous_digest |-> previous_digest, difficulty |-> difficulty, nonce |-> nonce,
         digest |-> digest(build_digest_source(height, transactions, timestamp,
                        previous_digest, difficulty,
                        IF tamper THEN nonce + 1 ELSE nonce))])

\* the nonce a sender found by grinding: the least nonce whose digest has
\* DIFFICULTY leading zero bits, MaxNonce when there is none in range
GroundNonce(height, transactions, timestamp, previous_digest) ==
    LET good == {n \in Nonces :
                    LeadingZeroBits(digest(build_digest_source(height, transactions,
                        timestamp, previous_digest, DIFFICULTY, n))) >= DIFFICULTY}
    IN IF good = {} THEN MaxNonce ELSE CHOOSE n \in good : \A m \in good : n <= m

\* a block that claims the block of node p as its parent, at the next height
LinkedBlock(tree, p, transactions, timestamp) ==
    WireBlock(tree.nodes[p].data.height + 1, transactions, timestamp,
              tree.nodes[p].data.digest, DIFFICULTY,
              GroundNonce(tree.nodes[p].data.height + 1, transactions, timestamp,
                          tree.nodes[p].data.digest),
              FALSE)

\* a block of height 0
GenesisBlock(transactions, timestamp) ==
    WireBlock(0, transactions, timestamp, EmptyDigest, DIFFICULTY,
              GroundNonce(0, transactions, timestamp, EmptyDigest), FALSE)

GenesisTransactionLists ==
    { <<CoinbaseA>>, <<IssueMany>>, <<Spend, CoinbaseB(1)>>, <<Forged>> }

\* a block over node p that declares any difficulty
DeclaredBlock(tree, p, difficulty, nonce) ==
    WireBlock(tree.nodes[p].data.height + 1, <<CoinbaseA>>, MaxTime,
              tree.nodes[p].data.digest, difficulty, nonce, FALSE)

\* a block at any height over any known digest, with or without a digest that matches
StrayBlock(height, previous_digest, nonce, tamper) ==
    WireBlock(height, <<CoinbaseA>>, MaxTime, previous_digest, DIFFICULTY, nonce, tamper)

----------------------------------------------------------------------------
(* The full node (fullnode/src/main.rs): block intake and the miner, the   *)
(* two tasks that write the shared ledger                                   *)

\* the `?` operator on a stage's result: the error, or the next stage on the block
AndThen(r, stage(_)) == IF r.res # Ok THEN r ELSE stage(r.block)

\* verify_block_after_mining without stage D
verify_block_after_mining_without_digest(block, tree, map, checked) ==
    AndThen(AndThen(
        verify_transaction_relation(block, block_coin_generation_rule, checked),
        LAMBDA b : verify_difficulty(b, DIFFICULTY, checked)),
        LAMBDA b : LedgerVerifyBlock(tree, map, b))

\* verify_block_after_mining: stages TR, X, D, then Ledger::verify_block
verify_block_after_mining(block, tree, map, checked) ==
    AndThen(AndThen(AndThen(
        verify_transaction_relation(block, block_coin_generation_rule, checked),
        LAMBDA b : verify_difficulty(b, DIFFICULTY, checked)),
        LAMBDA b : verify_digest(b)),
        LAMBDA b : LedgerVerifyBlock(tree, map, b))

\* verify_block: stage T, then verify_block_after_mining
verify_block(block, tree, map, checked) ==
    AndThen(verify_transaction_itself(block, checked),
            LAMBDA b : verify_block_after_mining(b, tree, map, checked))

HoldsDigest(tree, dg) == \E i \in NodeIds(tree) : tree.nodes[i].data.digest = dg

\* the record of an operation; the block is kept when the ledger holds its digest
Record(op, res, block, tree) ==
    [op |-> op, res |-> res,
     block |-> IF HoldsDigest(tree, block.digest) THEN <<block>> ELSE <<>>]

Poisoned == last.res = Panic /\ last.op # "block_source"

\* `ledger.entry(verify_block(block, &ledger)?)`: [res, tree, map]
EntryOf(v, tree, map) ==
    IF v.res # Ok THEN [res |-> v.res, tree |-> tree, map |-> map]
    ELSE LedgerEntry(tree, map, v.block)

\* the ledger and the record after an operation on block that ended as e
Commit(op, block, e) ==
    /\ block_tree' = e.tree
    /\ digest_map' = e.map
    /\ last' = Record(op, e.res, block, e.tree)

\* block_subscription_event, under one lock of the ledger
BlockSubscriptionEvent(block) ==
    /\ ~Poisoned
    /\ Commit("block_subscription_event", block,
              EntryOf(verify_block(block, block_tree, digest_map, overflow_checks),
                      block_tree, digest_map))
    /\ UNCHANGED <<overflow_checks, mined, node_vars>>

Idle == [pc |-> "idle", block |-> <<>>]

\* the Miner after BlockSource::new or try_into_block ended as res without a block
MinerGivesUp(res) ==
    /\ last' = [op |-> "block_source", res |-> res, block |-> <<>>]
    /\ mined' = IF res = Panic THEN [pc |-> "panicked", block |-> <<>>] ELSE mined

\* the Miner after verify_block_after_mining of block ended as v
MinerVerified(block, v) ==
    /\ last' = Record("verify_block_after_mining", v.res, block, block_tree)
    /\ mined' = IF v.res = Ok THEN [pc |-> "verified", block |-> <<v.block>>]
                ELSE IF v.res = Panic THEN [pc |-> "panicked", block |-> <<>>]
                ELSE mined

\* the Miner from try_into_block on, b its result
MinerTry(b) ==
    IF b.res # Ok THEN MinerGivesUp(b.res)
    ELSE MinerVerified(b.block,
                       verify_block_after_mining(b.block, block_tree, digest_map,
                                                 overflow_checks))

\* the Miner from BlockSource::new on, src its result
MinerSource(src) ==
    IF src.res # Ok THEN MinerGivesUp(src.res)
    ELSE MinerTry(try_into_block(src, overflow_checks))

\* spawn_mining_join_handle up to the end of the first ledger lock: the tip,
\* BlockSource::new, one try_into_block, verify_block_after_mining
MinerVerify(transactions, tip, nonce, now) ==
    /\ ~Poisoned
    /\ mined.pc = "idle"
    /\ (IF tip = 0 THEN 0 ELSE block_tree.nodes[tip].data.height + 1) <= MaxHeight
    /\ ~(tip # 0 /\ transactions = <<>>)
    /\ MinerSource(BlockSourceNew(
           IF tip = 0 THEN 0 ELSE block_tree.nodes[tip].data.height + 1,
           transactions,
           IF tip = 0 THEN EmptyDigest ELSE block_tree.nodes[tip].data.digest,
           DIFFICULTY, nonce, "M", block_coin_generation_rule, now, overflow_checks))
    /\ UNCHANGED <<block_tree, digest_map, overflow_checks, node_vars>>

\* the second ledger lock of the Miner: Ledger::entry of the verified block
MinerEntry ==
    /\ ~Poisoned
    /\ mined.pc = "verified"
    /\ Commit("miner_entry", mined.block[1],
              LedgerEntry(block_tree, digest_map, mined.block[1]))
    /\ mined' = Idle
    /\ UNCHANGED <<overflow_checks, node_vars>>

\* the seven tasks main spawns, by the name of their spawn_ function
Tasks == {"transaction_subscriber", "block_subscriber", "block_height_publisher",
          "block_height_subscriber", "mining", "block_publisher", "utxo_pubsub"}

Mutexes == {"ledger", "incoming_transactions"}

\* where each task's loop begins
Entrance ==
    [t \in Tasks |->
        CASE t = "block_height_publisher" -> "lock"
          [] t = "mining" -> "snapshot"
          [] OTHER -> "recv"]

\* main before any task has run: both cells fresh, the channel empty, with the
\* value of --mine-genesis-block
Spawned(opt_in) ==
    /\ incoming_transactions = <<>>
    /\ mutex = [m \in Mutexes |-> "none"]
    /\ pc = Entrance
    /\ local = [t \in Tasks |-> <<>>]
    /\ publish_channel = <<>>
    /\ mine_genesis_block = opt_in

Init ==
    /\ block_tree = EmptyTree
    /\ digest_map = <<>>
    /\ overflow_checks \in BOOLEAN
    /\ mined = Idle
    /\ Spawned(TRUE)
    /\ last = [op |-> "new", res |-> Ok, block |-> <<>>]

Next ==
    \/ \E p \in NodeIds(block_tree), transactions \in WireTransactionLists,
          timestamp \in Times :
          /\ BlockSubscriptionEvent(LinkedBlock(block_tree, p, transactions, timestamp))
          /\ Len(block_tree'.nodes) <= MaxBlocks
    \/ \E transactions \in GenesisTransactionLists, timestamp \in Times :
          /\ BlockSubscriptionEvent(GenesisBlock(transactions, timestamp))
          /\ Len(block_tree'.nodes) <= MaxBlocks
    \/ \E p \in NodeIds(block_tree), difficulty \in Difficulties, nonce \in Nonces :
          /\ BlockSubscriptionEvent(DeclaredBlock(block_tree, p, difficulty, nonce))
          /\ Len(block_tree'.nodes) <= MaxBlocks
    \/ \E height \in {0, MaxHeight}, previous_digest \in KnownDigests(block_tree),
          nonce \in Nonces, tamper \in BOOLEAN :
          /\ BlockSubscriptionEvent(StrayBlock(height, previous_digest, nonce, tamper))
          /\ Len(block_tree'.nodes) <= MaxBlocks
    \/ \E transactions \in MempoolSnapshots, nonce \in Nonces,
          tip \in (IF digest_map = <<>> THEN {0}
                   ELSE search_latest_block(block_tree, digest_map)),
          now \in {<<t, t, t>> : t \in Times} :
          MinerVerify(transactions, tip, nonce, now)
    \/ MinerEntry /\ Len(block_tree'.nodes) <= MaxBlocks

Spec == Init /\ [][Next]_vars

----------------------------------------------------------------------------
(* Block intake alone, over longer chains: one genesis block that issues   *)
(* A's coin, and blocks over any block of the ledger                        *)

MaxChain == 3

\* Serialize (derived) for Transition: the variant's name, then its fields
SerializeTransition(t) ==
    IF t.kind = "Transfer"
    THEN <<"Transfer", t.sender, t.receiver, t.quantity, t.timestamp, t.sign>>
    ELSE <<"Generation", t.receiver, t.quantity, t.timestamp, t.sign>>

\* Deserialize for Transition<Yet> that decodes every variant as a Transfer
DeserializeTransition_as_transfer(v) ==
    [kind |-> "Transfer", sender |-> v[2], receiver |-> v[2], quantity |-> v[3],
     timestamp |-> v[Len(v) - 1], sign |-> v[Len(v)]]

\* Deserialize for Transition<Yet>, Transfer<Yet> and Generation<Yet>
DeserializeTransition(v) ==
    IF v[1] = "Transfer"
    THEN [kind |-> "Transfer", sender |-> v[2], receiver |-> v[3], quantity |-> v[4],
          timestamp |-> v[5], sign |-> v[6]]
    ELSE [kind |-> "Generation", sender |-> NoAddress, receiver |-> v[2],
          quantity |-> v[3], timestamp |-> v[4], sign |-> v[5]]

\* Serialize (derived) for Transaction: the fields but the marker
SerializeTransaction(tx) ==
    <<tx.contractor, [i \in DOMAIN tx.inputs |-> SerializeTransition(tx.inputs[i])],
      [i \in DOMAIN tx.outputs |-> SerializeTransition(tx.outputs[i])],
      tx.timestamp, tx.sign>>

\* Deserialize for Transaction<Yet, Yet>
DeserializeTransaction(v) ==
    [contractor |-> v[1],
     inputs |-> [i \in DOMAIN v[2] |-> DeserializeTransition(v[2][i])],
     outputs |-> [i \in DOMAIN v[3] |-> DeserializeTransition(v[3][i])],
     timestamp |-> v[4], sign |-> v[5]]

\* Serialize (derived) for Block: the fields but the marker of the six proofs
SerializeBlock(block) ==
    <<block.height,
      [i \in DOMAIN block.transactions |-> SerializeTransaction(block.transactions[i])],
      block.timestamp, block.previous_digest, block.difficulty, block.nonce,
      block.digest>>

\* Deserialize for Block<Yet, Yet, Yet, Yet, Yet, Yet> on what Serialize wrote
DeserializeBlock(v) ==
    Deserialize([height |-> v[1],
                 transactions |-> [i \in DOMAIN v[2] |-> DeserializeTransaction(v[2][i])],
                 timestamp |-> v[3], previous_digest |-> v[4], difficulty |-> v[5],
                 nonce |-> v[6], digest |-> v[7]])

\* a block of the ledger is serialized, as the BlockPublisher does, decoded
\* again and verified against the ledger (verify_block of main.rs); v is what
\* the verification returned
Echoed(block, v) ==
    /\ ~Poisoned
    /\ last' = [op |-> "echo", res |-> v.res, block |-> <<block>>,
                decoded |-> <<DeserializeBlock(SerializeBlock(block))>>,
                verified |-> <<v.block>>]
    /\ UNCHANGED <<block_tree, digest_map, overflow_checks, mined, node_vars>>

Echo(block) ==
    Echoed(block, verify_block(DeserializeBlock(SerializeBlock(block)),
                               block_tree, digest_map, overflow_checks))

\* ledger.build_utxos(tip.digest(), &holder), as spawn_utxo_pubsub calls it
BuildUtxos(tip, holder) ==
    /\ ~Poisoned
    /\ last' = [op |-> "build_utxos", res |-> Ok, block |-> <<>>, tip |-> tip,
                holder |-> holder,
                utxos |-> build_utxos(block_tree, digest_map,
                                      block_tree.nodes[tip].data.digest, holder)]
    /\ UNCHANGED <<block_tree, digest_map, overflow_checks, mined, node_vars>>

ChainNext ==
    \/ \E id \in NodeIds(block_tree) : Echo(block_tree.nodes[id].data)
    \/ \E tip \in NodeIds(block_tree), holder \in {"A", "B"} : BuildUtxos(tip, holder)
    \/ \E timestamp \in Times :
          /\ BlockSubscriptionEvent(GenesisBlock(<<CoinbaseA>>, timestamp))
          /\ Len(block_tree'.nodes) <= MaxChain
    \/ \E p \in NodeIds(block_tree),
          transactions \in WireTransactionLists \ {<<IssueMany>>},
          timestamp \in Times :
          /\ BlockSubscriptionEvent(LinkedBlock(block_tree, p, transactions, timestamp))
          /\ Len(block_tree'.nodes) <= MaxChain

ChainSpec == Init /\ [][ChainNext]_vars

----------------------------------------------------------------------------
(* Ledger::entry called directly, with any VerifiedBlock for argument       *)

MaxEntries == 3

UnknownDigest == digest(<<0>>)

\* a block that carries all six proofs, whatever ledger gave them
EntryBlock(height, transactions, previous_digest) ==
    [WireBlock(height, transactions, MaxTime, previous_digest, DIFFICULTY, 0, FALSE)
        EXCEPT !.proof = AllVerified]

\* the ledger and the record after Ledger::entry(block) ended as e
Entered(block, e) ==
    /\ block_tree' = e.tree
    /\ digest_map' = e.map
    /\ last' = [op |-> "entry", res |-> e.res, block |-> <<block>>]

Entry(block) ==
    /\ Entered(block, LedgerEntry(block_tree, digest_map, block))
    /\ UNCHANGED <<overflow_checks, mined, node_vars>>

\* Ledger::upstream_chain_from(digest), collected: the blocks it yields
UpstreamChainFrom(dg) ==
    /\ last' = [op |-> "upstream_chain_from", res |-> Ok, block |-> <<>>, digest |-> dg,
                chain |-> [k \in DOMAIN upstream_chain_from(block_tree, digest_map, dg) |->
                            block_tree.nodes[upstream_chain_from(block_tree, digest_map,
                                                                 dg)[k]].data]]
    /\ UNCHANGED <<block_tree, digest_map, overflow_checks, mined, node_vars>>

LedgerNext ==
    \/ \E dg \in KnownDigests(block_tree) \cup {UnknownDigest} : UpstreamChainFrom(dg)
    \/ \E height \in Heights, transactions \in {<<CoinbaseA>>, <<CoinbaseB(1)>>},
       previous_digest \in KnownDigests(block_tree) \cup {UnknownDigest} :
       /\ Entry(EntryBlock(height, transactions, previous_digest))
       /\ Len(block_tree'.nodes) <= MaxEntries

LedgerSpec == Init /\ [][LedgerNext]_vars

----------------------------------------------------------------------------
(* The six stages of Block<VT, VTS, VU, VP, VDG, VDI> applied to one block  *)
(* decoded from the wire, in every order its type allows.  A stage that     *)
(* fails consumes the block.                                                *)

PipelineBlocks ==
    { GenesisBlock(<<CoinbaseA>>, 1), GenesisBlock(<<Forged>>, 1),
      GenesisBlock(<<Spend>>, 1), GenesisBlock(<<CoinbaseB(2), Spend>>, 1),
      StrayBlock(0, EmptyDigest, 0, TRUE), StrayBlock(0, EmptyDigest, 1, TRUE),
      StrayBlock(1, UnknownDigest, 0, FALSE), StrayBlock(1, UnknownDigest, 1, FALSE) }

\* what a lookup closure of stage P can answer
Lookups(values) == {<<>>} \cup {<<x>> : x \in values}

Holding == last.res = Ok /\ last.block # <<>>

\* the record after a stage ended as r
Staged(op, r) ==
    /\ last' = [op |-> op, res |-> r.res, block |-> IF r.res = Ok THEN <<r.block>> ELSE <<>>]
    /\ UNCHANGED <<block_tree, digest_map, overflow_checks, mined, node_vars>>

StageT ==
    /\ Holding /\ ~last.block[1].proof["VT"]
    /\ Staged("verify_transaction_itself",
              verify_transaction_itself(last.block[1], overflow_checks))

StageTR ==
    /\ Holding /\ ~last.block[1].proof["VTS"]
    /\ Staged("verify_transaction_relation",
              verify_transaction_relation(last.block[1], block_coin_generation_rule,
                                          overflow_checks))

StageU(all_utxo) ==
    /\ Holding /\ ~last.block[1].proof["VU"]
    /\ last.block[1].proof["VT"] /\ last.block[1].proof["VTS"]
    /\ Staged("verify_utxo", verify_utxo(last.block[1], all_utxo))

StageP(digest_history, timestamp_history) ==
    /\ Holding /\ ~last.block[1].proof["VP"]
    /\ Staged("verify_previous_block",
              verify_previous_block(last.block[1], digest_history, timestamp_history))

StageD ==
    /\ Holding /\ ~last.block[1].proof["VDG"]
    /\ Staged("verify_digest", verify_digest(last.block[1]))

StageX(expected_difficulty) ==
    /\ Holding /\ ~last.block[1].proof["VDI"]
    /\ Staged("verify_difficulty",
              verify_difficulty(last.block[1], expected_difficulty, overflow_checks))

PipelineInit ==
    /\ block_tree = EmptyTree
    /\ digest_map = <<>>
    /\ overflow_checks \in BOOLEAN
    /\ mined = Idle
    /\ Spawned(TRUE)
    /\ \E block \in PipelineBlocks :
          last = [op |-> "deserialize", res |-> Ok, block |-> <<block>>]

PipelineNext ==
    \/ StageT
    \/ StageTR
    \/ \E all_utxo \in BOOLEAN : StageU(all_utxo)
    \/ \E digest_history \in Lookups({EmptyDigest, UnknownDigest}),
          timestamp_history \in Lookups({0, MaxTime}) :
          StageP(digest_history, timestamp_history)
    \/ StageD
    \/ \E expected_difficulty \in Difficulties : StageX(expected_difficulty)

PipelineSpec == PipelineInit /\ [][PipelineNext]_vars

----------------------------------------------------------------------------
(* The functions of blockchain-core called one at a time, each with any     *)
(* argument: last holds the name of the function, its arguments and what    *)
(* it returned.  The calls share nothing but the build profile.             *)

\* a call is made on its own, from the state after construction, and leaves
\* the ledger, the build profile and the Miner alone
Apart == last.op = "new" /\ UNCHANGED <<block_tree, digest_map, overflow_checks, mined, node_vars>>

\* blocks at every height with every timestamp, over a digest or another
ChainedBlocks ==
    { WireBlock(height, <<CoinbaseA>>, timestamp, previous_digest, DIFFICULTY, 0, FALSE) :
        height \in Heights, timestamp \in Times,
        previous_digest \in {EmptyDigest, UnknownDigest} }

\* Block::verify_previous_block(digest_history, timestamp_history)
CallVerifyPreviousBlock(block, digest_history, timestamp_history) ==
    /\ Apart
    /\ last' = [op |-> "verify_previous_block", block |-> block,
                digest_history |-> digest_history,
                timestamp_history |-> timestamp_history,
                res |-> verify_previous_block(block, digest_history,
                                              timestamp_history).res]

\* every value of a Difficulty (a u8 in the source), to scale
AnyDifficulty == 0..(CountModulus - 1)

\* every value of the bytes of a BlockDigest
AllDigestBytes == {ToBytes(n, DigestLen) : n \in 0..(ByteModulus ^ DigestLen - 1)}

\* blocks from the wire that declare any difficulty and carry any digest
DifficultyBlocks ==
    { [GenesisBlock(<<CoinbaseA>>, 1) EXCEPT !.difficulty = d, !.digest.bytes = bytes] :
        d \in AnyDifficulty, bytes \in AllDigestBytes }

\* Block::verify_difficulty(expected_difficulty)
CallVerifyDifficulty(block, expected_difficulty) ==
    /\ Apart
    /\ last' = [op |-> "verify_difficulty", block |-> block,
                expected_difficulty |-> expected_difficulty,
                res |-> verify_difficulty(block, expected_difficulty,
                                          overflow_checks).res]

\* what the inputs and the outputs of a transaction of contractor A can be: of
\* another receiver, of another sender, later than the transaction, worth more
\* than the inputs, worth nothing, and worth more than a Coin can hold
CallInputs ==
    { <<>>, <<gA>>, <<gB(1)>>, <<GenerationOffer("A", 1, MaxTime)>>, <<gHalfA, gHalfA>> }

CallOutputs ==
    { <<>>, <<gB(1)>>, <<tAB>>, <<TransferOffer("B", "A", 1, 1)>>,
      <<TransferOffer("A", "B", 2, 1)>>, <<TransferOffer("A", "B", 1, MaxTime)>>,
      <<TransferOffer("A", "B", 0, 1)>>,
      <<TransferOffer("A", "B", HalfCoin, 1), TransferOffer("A", "M", HalfCoin, 1), tAB>> }

\* a transaction of contractor A as it is decoded from the wire, with the
\* contractor's signature or with somebody else's
CallTransaction(inputs, outputs, timestamp, signed) ==
    [TransactionOffer("A", inputs, outputs, timestamp) EXCEPT
        !.sign = IF signed THEN @ ELSE sign("B", @.src)]

\* Transaction::verify_transaction
CallVerifyTransaction(inputs, outputs, timestamp, signed) ==
    /\ Apart
    /\ last' = [op |-> "verify_transaction",
                tx |-> CallTransaction(inputs, outputs, timestamp, signed),
                res |-> verify_transaction(
                            CallTransaction(inputs, outputs, timestamp, signed),
                            overflow_checks)]

\* gen_rule answers 0..MaxReward for the height of the candidate
MaxReward == 2

\* verified transactions as the mempool hands them over: none, out of order
\* and of equal timestamps, issuing more than they spend, issuing more than a
\* Coin holds
SuppliedTransactions ==
    { <<>>, <<CoinbaseB(2), Spend, SpendAgain>>, <<SpendAndIssue>>, <<IssueMany>> }

\* BlockSource::new(height, transactions, previous_digest, difficulty, nonce,
\* reward_receiver, gen_rule); now is what Timestamp::now() (the wall clock)
\* answers to its three calls
CallBlockSourceNew(height, transactions, difficulty, nonce, reward, now) ==
    /\ Apart
    /\ last' = [op |-> "block_source_new", height |-> height,
                transactions |-> transactions, reward |-> reward,
                source |-> BlockSourceNew(height, transactions, EmptyDigest, difficulty,
                                          nonce, "M", LAMBDA h : reward, now,
                                          overflow_checks)]

\* blocks from the wire with any of the transaction lists
RelationBlocks ==
    { GenesisBlock(transactions, MaxTime) : transactions \in WireTransactionLists }

\* Block::verify_transaction_relation(gen_rule)
CallVerifyTransactionRelation(block) ==
    /\ Apart
    /\ last' = [op |-> "verify_transaction_relation", block |-> block,
                res |-> verify_transaction_relation(block, block_coin_generation_rule,
                                                    overflow_checks).res]

\* every byte sequence up to the length of a digest
ByteSequences == UNION {[1..n -> 0..(ByteModulus - 1)] : n \in 0..DigestLen}

\* Difficulty::verify_bytes(bytes), which Difficulty::verify_digest calls
CallVerifyBytes(d, bytes) ==
    /\ Apart
    /\ last' = [op |-> "verify_bytes", d |-> d, bytes |-> bytes,
                res |-> verify_bytes(d, bytes, overflow_checks)]

\* *source.nonce_mut() = nonce, then source.try_into_block(), on a candidate
\* BlockSource::new has built
CallTryIntoBlock(nonce) ==
    /\ last.op = "block_source_new"
    /\ last.source.res = Ok
    /\ last' = [op |-> "try_into_block", new |-> last.source,
                source |-> [last.source EXCEPT !.nonce = nonce],
                out |-> try_into_block([last.source EXCEPT !.nonce = nonce],
                                       overflow_checks)]
    /\ UNCHANGED <<block_tree, digest_map, overflow_checks, mined, node_vars>>

\* a sealed block as it is, and with one of its fields changed after mining
\* while the stored digest is kept: the height, the timestamp, the previous
\* digest, the difficulty, the nonce, and the transactions (another list, the
\* outputs of the first transaction moved to the end of its inputs, the first
\* transaction signed by somebody else)
Tampered(block) ==
    { block,
      [block EXCEPT !.height = @ + 1],
      [block EXCEPT !.timestamp = @ + 1],
      [block EXCEPT !.previous_digest =
                        IF @ = EmptyDigest THEN UnknownDigest ELSE EmptyDigest],
      [block EXCEPT !.difficulty = @ + 1],
      [block EXCEPT !.nonce = @ + 1],
      [block EXCEPT !.transactions = <<CoinbaseB(1)>>],
      [block EXCEPT !.transactions[1].inputs = @ \o block.transactions[1].outputs,
                    !.transactions[1].outputs = <<>>],
      [block EXCEPT !.transactions[1].sign = sign("B", @.src)] }

\* Block::verify_digest on a block that was sealed and then possibly changed
CallVerifyDigest(sealed, block) ==
    /\ Apart
    /\ last' = [op |-> "verify_digest", sealed |-> sealed, block |-> block,
                res |-> verify_digest(block).res]

\* the transaction lists of the blocks of a chain that is replayed: a coin is
\* issued, spent, spent again, spent twice in one block, issued and spent in
\* one block, and spent after another coin was issued in the same block
ReplayLists ==
    { <<CoinbaseA>>, <<Spend>>, <<SpendAgain>>, <<Spend, SpendAgain>>,
      <<CoinbaseA, Spend>>, <<CoinbaseB(1), Spend>> }

\* the loop of Ledger::build_utxos over the blocks of a chain, from utxos on:
\* for each block what push_block answered and the list before and after it
RECURSIVE PushedBlocks(_, _)
PushedBlocks(utxos, blocks) ==
    IF blocks = <<>> THEN <<>>
    ELSE <<[res |-> push_block(utxos, Head(blocks)).res,
            before |-> utxos,
            after |-> push_block(utxos, Head(blocks)).utxos,
            transactions |-> Head(blocks).transactions]>>
         \o PushedBlocks(push_block(utxos, Head(blocks)).utxos, Tail(blocks))

\* TransferHistory::new(), then push_block(block).ok() for the blocks of a chain
CallPushBlocks(chain) ==
    /\ Apart
    /\ last' = [op |-> "push_block", res |-> Ok,
                steps |-> PushedBlocks(<<>>, [k \in DOMAIN chain |->
                                                 [transactions |-> chain[k]]])]

\* the lists a transaction of contractor A can carry as inputs or as outputs
BranchLists == { <<>>, <<gA>>, <<tAB>>, <<gA, tAB>> }

\* build_signature_source of two transactions of one contractor and one
\* timestamp, and builde_digest_source_except_nonce of two genesis blocks that
\* hold one of them each
CallBuildSources(first, second) ==
    /\ Apart
    /\ last' = [op |-> "build_signature_source", res |-> Ok,
                first |-> first, second |-> second,
                sources |-> <<build_signature_source("A", first[1], first[2], 1),
                              build_signature_source("A", second[1], second[2], 1)>>,
                digest_sources |->
                    <<builde_digest_source_except_nonce(
                          0, <<TransactionOffer("A", first[1], first[2], 1)>>, 1,
                          EmptyDigest, DIFFICULTY),
                      builde_digest_source_except_nonce(
                          0, <<TransactionOffer("A", second[1], second[2], 1)>>, 1,
                          EmptyDigest, DIFFICULTY)>>]

\* Difficulty::raise with an addition that wraps
raise_wrapping(d) == (d + 1) % CountModulus

\* Difficulty::raise: checked_add(1).unwrap_or(u8::MAX), to scale
raise(d) == IF d + 1 >= CountModulus THEN CountModulus - 1 ELSE d + 1

\* Difficulty::ease: checked_sub(1).unwrap_or_default()
ease(d) == IF d = 0 THEN 0 ELSE d - 1

\* Block::verify_difficulty with the difficulty the block declares and with
\* that difficulty raised
CallVerifyRaised(block) ==
    /\ Apart
    /\ last' = [op |-> "raise", block |-> block,
                raised |-> raise(block.difficulty), eased |-> ease(block.difficulty),
                res |-> verify_difficulty(block, block.difficulty, overflow_checks).res,
                res_raised |-> verify_difficulty(block, raise(block.difficulty),
                                                 overflow_checks).res]

CallNext ==
    \/ \E block \in DifficultyBlocks : CallVerifyRaised(block)
    \/ \E first \in BranchLists \X BranchLists, second \in BranchLists \X BranchLists :
          CallBuildSources(first, second)
    \/ \E chain \in ReplayLists \X ReplayLists \X ReplayLists : CallPushBlocks(chain)
    \/ \E sealed \in ChainedBlocks : \E block \in Tampered(sealed) :
          CallVerifyDigest(sealed, block)
    \/ \E nonce \in Nonces : CallTryIntoBlock(nonce)
    \/ \E d \in AnyDifficulty, bytes \in ByteSequences : CallVerifyBytes(d, bytes)
    \/ \E height \in Heights, transactions \in SuppliedTransactions,
          difficulty \in AnyDifficulty, nonce \in Nonces, reward \in 0..MaxReward,
          now \in Times \X Times \X Times :
          CallBlockSourceNew(height, transactions, difficulty, nonce, reward, now)
    \/ \E block \in RelationBlocks : CallVerifyTransactionRelation(block)
    \/ \E inputs \in CallInputs, outputs \in CallOutputs, timestamp \in Times,
          signed \in BOOLEAN :
          CallVerifyTransaction(inputs, outputs, timestamp, signed)
    \/ \E block \in ChainedBlocks,
          digest_history \in Lookups({EmptyDigest, UnknownDigest}),
          timestamp_history \in Lookups(0..MaxTime) :
          CallVerifyPreviousBlock(block, digest_history, timestamp_history)
    \/ \E block \in DifficultyBlocks, expected_difficulty \in AnyDifficulty :
          CallVerifyDifficulty(block, expected_difficulty)

CallSpec == Init /\ [][CallNext]_vars

----------------------------------------------------------------------------
(* Properties of the full node (Spec) *)

\* the chain from the root down to node id
ChainTo(tree, id) == Reverse(<<id>> \o ancestors(tree, id))

\* what one transaction does to the coin history: its inputs, then its outputs
TransactionEvents(tx) ==
    [i \in DOMAIN tx.inputs |-> [io |-> "in", sign |-> tx.inputs[i].sign]]
        \o [i \in DOMAIN tx.outputs |-> [io |-> "out", sign |-> tx.outputs[i].sign]]

BlockEvents(block) ==
    Flatten([i \in DOMAIN block.transactions |-> TransactionEvents(block.transactions[i])])

ChainEvents(tree, id) ==
    LET chain == ChainTo(tree, id) IN
    Flatten([k \in DOMAIN chain |-> BlockEvents(tree.nodes[chain[k]].data)])

\* every input is an earlier output not yet consumed, and no transition is
\* created twice
NoDoubleSpend(events) ==
    \A i \in DOMAIN events :
        LET earlier(io) == \E j \in 1..(i - 1) :
                               events[j].io = io /\ events[j].sign = events[i].sign
        IN IF events[i].io = "in" THEN earlier("out") /\ ~earlier("in")
           ELSE ~earlier("out")

\* C1: after any sequence of blocks admitted through Ledger::verify_block and
\* Ledger::entry, the chain from the root to a block of maximum height has no
\* double spend: every input was created by an earlier output not yet consumed,
\* no transition is an output twice and none is an input twice.
C1_NoDoubleSpendOnLongestChain ==
    \A id \in search_latest_block(block_tree, digest_map) :
        NoDoubleSpend(ChainEvents(block_tree, id))

\* C2: every block of the ledger other than the genesis block has a parent in
\* the ledger whose digest is its previous_digest, whose height is one less and
\* whose timestamp is strictly less.
C2_ParentLinkage ==
    \A i \in NodeIds(block_tree) :
        LET b == block_tree.nodes[i].data IN
        b.height > 0 =>
            \E j \in NodeIds(block_tree) :
                LET parent == block_tree.nodes[j].data IN
                /\ parent.digest = b.previous_digest
                /\ parent.height = b.height - 1
                /\ parent.timestamp < b.timestamp

\* C3: every block in the shared ledger, and the block the Miner holds between
\* its two locks, carries all six proofs, and the six stages accept it: no block
\* lacking any of T, TR, U, P, D, X is ever under the ledger mutex.
C3_AllStagesPassed ==
    /\ \A i \in NodeIds(block_tree) :
           LET b == block_tree.nodes[i].data IN
           /\ b.proof = AllVerified
           /\ verify_transaction_itself(Deserialize(b), overflow_checks).res = Ok
           /\ verify_transaction_relation(Deserialize(b), block_coin_generation_rule,
                                          overflow_checks).res = Ok
           /\ verify_digest(Deserialize(b)).res = Ok
           /\ verify_difficulty(Deserialize(b), DIFFICULTY, overflow_checks).res = Ok
           /\ LedgerVerifyBlock(block_tree, digest_map, Deserialize(b)).res = Ok
    /\ mined.block # <<>> => mined.block[1].proof = AllVerified

\* a ledger of a block from the wire and, under it, a block the Miner entered
C3_Witness ==
    /\ Len(block_tree.nodes) = 2
    /\ block_tree.nodes[1].data.transactions = <<CoinbaseA>>
    /\ last.op = "miner_entry"
    /\ last.res = Ok

\* C4: every block of the ledger conserves coin: the quantities of all inputs
\* plus the reward of its height equal the quantities of all outputs.
C4_Conservation ==
    \A i \in NodeIds(block_tree) :
        LET b == block_tree.nodes[i].data IN
        SeqSum(Quantities(BlockInputs(b))) + block_coin_generation_rule(b.height)
            = SeqSum(Quantities(BlockOutputs(b)))

PureCoinbase(tx) ==
    tx.inputs = <<>> /\ \A i \in DOMAIN tx.outputs : tx.outputs[i].kind = "Generation"

\* C5: every block of the ledger has exactly one pure-coinbase transaction, and
\* that transaction has one Generation output whose quantity is the reward plus
\* the inputs minus the outputs of the other transactions.
C5_SingleCoinbase ==
    \A i \in NodeIds(block_tree) :
        LET b == block_tree.nodes[i].data
            coinbases == {k \in DOMAIN b.transactions : PureCoinbase(b.transactions[k])}
        IN
        /\ Cardinality(coinbases) = 1
        /\ \A k \in coinbases :
               LET others == SelectSeq(b.transactions, LAMBDA tx : tx # b.transactions[k])
                   ins == Flatten([n \in DOMAIN others |-> others[n].inputs])
                   outs == Flatten([n \in DOMAIN others |-> others[n].outputs])
               IN
               /\ Len(b.transactions[k].outputs) = 1
               /\ b.transactions[k].outputs[1].quantity
                      = block_coin_generation_rule(b.height)
                        + SeqSum(Quantities(ins)) - SeqSum(Quantities(outs))

\* C6: the digest of every block of the ledger, mined here or received from the
\* wire, has at least as many leading zero bits as the difficulty the block
\* itself declares.
C6_DeclaredDifficulty ==
    \A i \in NodeIds(block_tree) :
        LeadingZeroBits(block_tree.nodes[i].data.digest)
            >= block_tree.nodes[i].data.difficulty

----------------------------------------------------------------------------
(* Properties of Ledger::entry (LedgerSpec) *)

\* C7 as the specification states it: Ledger::entry of a block whose digest
\* the ledger already holds, at any height, ends in DuplicatedBlock and leaves
\* the tree and the digest map as they were.
C7_DuplicateDigest ==
    [][(last'.op = "entry" /\ HoldsDigest(block_tree, last'.block[1].digest))
       => /\ last'.res = Err("DuplicatedBlock")
          /\ UNCHANGED <<block_tree, digest_map>>]_vars

\* C7: Ledger::entry of a block whose digest the ledger already holds leaves
\* the tree and the digest map as they were, and ends in DuplicatedBlock when
\* the block's height is above 0 and in DuplicatedGenesisBlock when it is 0.
C7_DuplicateByHeight ==
    [][(last'.op = "entry" /\ HoldsDigest(block_tree, last'.block[1].digest))
       => /\ last'.res = IF last'.block[1].height = 0
                         THEN Err("DuplicatedGenesisBlock")
                         ELSE Err("DuplicatedBlock")
          /\ UNCHANGED <<block_tree, digest_map>>]_vars

\* the root of the ledger has been entered once more
C7_Witness ==
    /\ last.op = "entry"
    /\ last.res = Err("DuplicatedGenesisBlock")
    /\ block_tree.root # 0
    /\ block_tree.nodes[block_tree.root].data = last.block[1]

\* C8: Ledger::entry of a block of height 0 succeeds exactly when the tree is
\* empty, and the block is then the root; otherwise it ends in
\* DuplicatedGenesisBlock and leaves the ledger as it was.  The ledger never
\* holds more than one block of height 0.
C8_GenesisEntry ==
    [][(last'.op = "entry" /\ last'.block[1].height = 0)
       => /\ IF block_tree.root = 0
             THEN /\ last'.res = Ok
                  /\ block_tree'.root # 0
                  /\ block_tree'.nodes[block_tree'.root].data = last'.block[1]
             ELSE /\ last'.res = Err("DuplicatedGenesisBlock")
                  /\ UNCHANGED <<block_tree, digest_map>>
          /\ Cardinality({i \in NodeIds(block_tree') :
                             block_tree'.nodes[i].data.height = 0}) <= 1]_vars

\* a second block of height 0 was refused by a ledger of two blocks
C8_Witness ==
    /\ last.op = "entry"
    /\ last.block[1].height = 0
    /\ last.res = Err("DuplicatedGenesisBlock")
    /\ Len(block_tree.nodes) = 2

\* the nodes of the tree whose block has digest dg
NodesOf(tree, dg) == {i \in NodeIds(tree) : tree.nodes[i].data.digest = dg}

\* tree2 is tree with block appended as the last child of node parent
AppendedUnder(tree, tree2, parent, block) ==
    /\ Len(tree2.nodes) = Len(tree.nodes) + 1
    /\ tree2.root = tree.root
    /\ tree2.nodes[Len(tree2.nodes)] = [data |-> block, parent |-> parent, children |-> <<>>]
    /\ tree2.nodes[parent].children = Append(tree.nodes[parent].children, Len(tree2.nodes))
    /\ \A i \in NodeIds(tree) :
           /\ tree2.nodes[i].data = tree.nodes[i].data
           /\ tree2.nodes[i].parent = tree.nodes[i].parent
           /\ i # parent => tree2.nodes[i].children = tree.nodes[i].children

\* C9: Ledger::entry of a block of height above 0 ends in IsolatedBlock when
\* the ledger has no block with digest previous_digest or that block's height
\* is not height - 1; otherwise, when the parent has no child of the same
\* digest, the block is appended under the parent and Ledger::get of its digest
\* returns it.  Every error leaves the ledger as it was.
C9_ChildEntry ==
    [][(last'.op = "entry" /\ last'.block[1].height > 0)
       => LET b == last'.block[1]
              parents == NodesOf(block_tree, b.previous_digest)
          IN
          /\ last'.res # Ok => UNCHANGED <<block_tree, digest_map>>
          /\ IF parents = {} \/ \E i \in parents :
                                   block_tree.nodes[i].data.height # b.height - 1
             THEN last'.res = Err("IsolatedBlock")
             ELSE (\A i \in parents : \A k \in DOMAIN block_tree.nodes[i].children :
                       block_tree.nodes[block_tree.nodes[i].children[k]].data.digest
                           # b.digest)
                  => /\ last'.res = Ok
                     /\ \E i \in parents : AppendedUnder(block_tree, block_tree', i, b)
                     /\ get(block_tree', digest_map', b.digest)
                            = [some |-> TRUE, block |-> b]]_vars

\* a block of height 2 was appended under a block of height 1
C9_Witness ==
    /\ last.op = "entry"
    /\ last.res = Ok
    /\ last.block[1].height = 2
    /\ Len(block_tree.nodes) = 3

----------------------------------------------------------------------------
(* Properties of the six stages (PipelineSpec) *)

\* the stage each method stands for
StageOf ==
    [verify_transaction_itself |-> "VT", verify_transaction_relation |-> "VTS",
     verify_utxo |-> "VU", verify_previous_block |-> "VP",
     verify_digest |-> "VDG", verify_difficulty |-> "VDI"]

\* C10: a block decoded from the wire has all six flags Yet.  A stage either
\* fails or sets exactly its own flag, clears none and leaves every field as
\* it was; stage U is applied only to a block that has passed T and TR.
C10_TypeState ==
    /\ [](last.op = "deserialize" => last.block[1].proof = AllYet)
    /\ [][(last'.block # <<>>)
          => LET before == last.block[1]
                 after == last'.block[1]
             IN
             /\ {s \in Stages : after.proof[s] # before.proof[s]} = {StageOf[last'.op]}
             /\ after.proof[StageOf[last'.op]]
             /\ Deserialize(after) = Deserialize(before)
             /\ last'.op = "verify_utxo" => before.proof["VT"] /\ before.proof["VTS"]]_vars

\* stages D and P have passed on a block whose transactions nobody has verified
C10_Witness ==
    /\ last.block # <<>>
    /\ last.op = "verify_previous_block"
    /\ last.block[1].proof = [AllYet EXCEPT !["VDG"] = TRUE, !["VP"] = TRUE]

----------------------------------------------------------------------------
(* Properties of the functions of blockchain-core (CallSpec) *)

\* C11: verify_previous_block accepts a block of height 0 whatever the lookups
\* answer; above height 0 it succeeds exactly when both lookups answer for the
\* previous height, the digest looked up is the block's previous_digest and the
\* timestamp looked up is strictly less than the block's; otherwise it ends in
\* Chain.
C11_PreviousBlock ==
    last.op = "verify_previous_block" =>
        IF last.block.height = 0 THEN last.res = Ok
        ELSE IF /\ last.digest_history # <<>>
                /\ last.timestamp_history # <<>>
                /\ last.digest_history[1] = last.block.previous_digest
                /\ last.timestamp_history[1] < last.block.timestamp
             THEN last.res = Ok
             ELSE last.res = Err("Chain")

\* the parent's digest was found, with the very timestamp of the block
C11_Witness ==
    /\ last.op = "verify_previous_block"
    /\ last.block.height > 0
    /\ last.digest_history = <<last.block.previous_digest>>
    /\ last.timestamp_history = <<last.block.timestamp>>
    /\ last.res = Err("Chain")

\* C12: verify_difficulty ends in InsufficientDifficulty whenever the block
\* declares less than the expected difficulty, whatever its digest; otherwise
\* in PoWFailure when the digest has fewer leading zero bits than expected;
\* otherwise it succeeds.
C12_DifficultyOrder ==
    last.op = "verify_difficulty" =>
        last.res = IF last.block.difficulty < last.expected_difficulty
                   THEN Err("InsufficientDifficulty")
                   ELSE IF LeadingZeroBits(last.block.digest) < last.expected_difficulty
                   THEN Err("PoWFailure")
                   ELSE Ok

\* the six checks of a transaction in their order, on exact sums: the error of
\* the first that fails
ChecksInOrder(tx) ==
    IF tx.outputs = <<>> THEN Err("EmptyOutput")
    ELSE IF \E i \in DOMAIN tx.inputs : tx.inputs[i].receiver # tx.contractor
    THEN Err("SenderMismatch")
    ELSE IF \E i \in DOMAIN tx.outputs :
               tx.outputs[i].kind = "Transfer" /\ tx.outputs[i].sender # tx.contractor
    THEN Err("ReceiverMismatch")
    ELSE IF SeqSum(Quantities(tx.inputs)) < SeqSum(Quantities(SelectTransfers(tx.outputs)))
    THEN Err("QuantityMismatch")
    ELSE IF \E i \in DOMAIN tx.inputs : tx.inputs[i].timestamp > tx.timestamp
    THEN Err("InvalidTimestamp")
    ELSE IF \E i \in DOMAIN tx.outputs : tx.outputs[i].timestamp > tx.timestamp
    THEN Err("InvalidTimestamp")
    ELSE IF tx.sign # sign(tx.contractor, TransactionBytes(tx)) THEN Err("InvalidSign")
    ELSE Ok

\* C13: verify_transaction makes its six checks in the order outputs not empty,
\* receivers of the inputs, senders of the output Transfers, sum of the inputs
\* at least the sum of the output Transfers, timestamps of the transitions,
\* signature of the contractor; it returns the error of the first check that
\* fails and succeeds only when all six hold.
C13_ChecksInOrder ==
    last.op = "verify_transaction" => last.res = ChecksInOrder(last.tx)

\* C14: a transaction without inputs passes verify_transaction only if all its
\* outputs are Generations; with a Transfer among its outputs, of whatever
\* quantity, it is refused.
C14_EmptyInputs ==
    (last.op = "verify_transaction" /\ last.tx.inputs = <<>> /\ last.res = Ok)
        => \A i \in DOMAIN last.tx.outputs : last.tx.outputs[i].kind = "Generation"

\* C15: no operation on Coin values wraps silently: a transaction is not
\* accepted by verify_transaction, a candidate is not built by BlockSource::new
\* and a block does not pass verify_transaction_relation when a sum of
\* quantities exceeds what a Coin holds or the reward of the candidate would be
\* negative
C15_NoSilentWrap ==
    /\ (last.op = "verify_transaction" /\ last.res = Ok) =>
          /\ SeqSum(Quantities(last.tx.inputs)) < CoinModulus
          /\ SeqSum(Quantities(SelectTransfers(last.tx.outputs))) < CoinModulus
    /\ (last.op = "block_source_new" /\ last.source.res = Ok) =>
          LET in_qty == SeqSum(Quantities(Flatten([i \in DOMAIN last.transactions |->
                                  last.transactions[i].inputs])))
              o_qty == SeqSum(Quantities(Flatten([i \in DOMAIN last.transactions |->
                                  last.transactions[i].outputs])))
          IN /\ in_qty < CoinModulus
             /\ o_qty < CoinModulus
             /\ last.reward + in_qty < CoinModulus
             /\ last.reward + in_qty >= o_qty
    /\ (last.op = "verify_transaction_relation" /\ last.res = Ok) =>
          /\ SeqSum(Quantities(BlockInputs(last.block))) < CoinModulus
          /\ SeqSum(Quantities(BlockOutputs(last.block))) < CoinModulus
          /\ SeqSum(Quantities(BlockInputs(last.block)))
                 + block_coin_generation_rule(last.block.height)
                = SeqSum(Quantities(BlockOutputs(last.block)))

\* C16: for every difficulty d and every byte sequence, Difficulty's verify
\* answers true exactly when the sequence starts with at least d zero bits,
\* counted from the most significant bit of the first byte on and across byte
\* boundaries; a digest of zero bytes only satisfies every d
C16_LeadingZeroBits ==
    last.op = "verify_bytes" =>
        last.res = [ok |-> TRUE, v |-> LeadingZeroBits([bytes |-> last.bytes]) >= last.d]

\* the sequence without its k-th item
RemoveAt(items, k) == SubSeq(items, 1, k - 1) \o SubSeq(items, k + 1, Len(items))

\* C17: the candidate BlockSource::new builds holds the supplied transactions
\* and exactly one more, a coinbase with no inputs and a single Generation to
\* the reward key of quantity R(h) + sum of the supplied inputs - sum of the
\* supplied outputs; the list is in non-decreasing order of timestamp and the
\* supplied transactions of equal timestamp keep their order
C17_CoinbaseAppended ==
    (last.op = "block_source_new" /\ last.source.res = Ok) =>
        LET supplied == last.transactions
            result == last.source.transactions
            in_qty == SeqSum(Quantities(Flatten([i \in DOMAIN supplied |->
                                                    supplied[i].inputs])))
            o_qty == SeqSum(Quantities(Flatten([i \in DOMAIN supplied |->
                                                   supplied[i].outputs])))
        IN /\ Len(result) = Len(supplied) + 1
           /\ IsSorted(TimestampsOf(result))
           /\ \E k \in DOMAIN result :
                 /\ result[k].inputs = <<>>
                 /\ Len(result[k].outputs) = 1
                 /\ result[k].outputs[1].kind = "Generation"
                 /\ result[k].outputs[1].receiver = "M"
                 /\ result[k].outputs[1].quantity = last.reward + in_qty - o_qty
                 /\ \A t \in Times :
                       SelectSeq(RemoveAt(result, k), LAMBDA tx : tx.timestamp = t)
                           = SelectSeq(supplied, LAMBDA tx : tx.timestamp = t)

\* C18: try_into_block returns a block exactly when the digest of the cached
\* prefix followed by the nonce has at least `difficulty` leading zero bits;
\* the block has the fields of the candidate, that digest, and the flag of
\* stage T only; otherwise the candidate comes back as it was
C18_TryIntoBlock ==
    last.op = "try_into_block" =>
        LET source == last.source
            dg == digest(source.digest_source_except_nonce \o NonceBytes(source.nonce))
        IN IF LeadingZeroBits(dg) >= source.difficulty
           THEN /\ last.out.res = Ok
                /\ last.out.block =
                       [height |-> source.height, transactions |-> source.transactions,
                        timestamp |-> source.timestamp,
                        previous_digest |-> source.previous_digest,
                        difficulty |-> source.difficulty, nonce |-> source.nonce,
                        digest |-> dg, proof |-> [s \in Stages |-> s = "VT"]]
           ELSE /\ last.out.res = Err("Source")
                /\ last.out.source = source

\* C19: every block try_into_block returns, whatever nonce was set after the
\* candidate was built, passes verify_digest, and passes verify_difficulty
\* with the difficulty the candidate was built with
C19_MinedBlockVerifies ==
    (last.op = "try_into_block" /\ last.out.res = Ok) =>
        /\ verify_digest(last.out.block).res = Ok
        /\ verify_difficulty(last.out.block, last.new.difficulty,
                             overflow_checks).res = Ok

\* a block is returned for a nonce other than the one the candidate was built
\* with, at a difficulty that not every digest satisfies
C19_Witness ==
    /\ last.op = "try_into_block"
    /\ last.out.res = Ok
    /\ last.source.nonce # last.new.nonce
    /\ last.new.difficulty > 0
    /\ last.out.block.nonce = last.source.nonce
    /\ verify_digest(last.out.block).res = Ok

\* C20: when a field the digest covers (height, transactions, timestamp,
\* previous digest, difficulty, nonce) of a sealed block is changed and the
\* stored digest is kept, verify_digest returns Digest
C20_TamperDetected ==
    (/\ last.op = "verify_digest"
     /\ last.block.digest = last.sealed.digest
     /\ \/ last.block.height # last.sealed.height
        \/ last.block.transactions # last.sealed.transactions
        \/ last.block.timestamp # last.sealed.timestamp
        \/ last.block.previous_digest # last.sealed.previous_digest
        \/ last.block.difficulty # last.sealed.difficulty
        \/ last.block.nonce # last.sealed.nonce)
    => last.res = Err("Digest")

----------------------------------------------------------------------------
(* Properties of serialization and of the queries of the ledger            *)

\* C21: a verified block, its transactions and their transitions, serialized
\* and decoded again, come back unverified, pass the full verification and
\* are then equal to the original
C21_RoundTrip ==
    last.op = "echo" =>
        LET block == last.block[1]
            decoded == last.decoded[1]
        IN /\ decoded.proof = AllYet
           /\ last.res = Ok
           /\ last.verified[1] = block
           /\ \A i \in DOMAIN block.transactions :
                 LET tx == block.transactions[i]
                     again == DeserializeTransaction(SerializeTransaction(tx))
                 IN /\ TransactionVerify(again, overflow_checks) = Ok
                    /\ again = tx
                    /\ \A t \in Range(tx.inputs) \cup Range(tx.outputs) :
                          /\ TransitionVerify(DeserializeTransition(SerializeTransition(t)))
                          /\ DeserializeTransition(SerializeTransition(t)) = t

\* a block above the genesis block that holds a Transfer and a Generation has
\* made the round trip
C21_Witness ==
    /\ last.op = "echo"
    /\ last.res = Ok
    /\ last.block[1].height > 0
    /\ last.block[1].proof = AllVerified
    /\ last.verified[1] = last.block[1]
    /\ \E i \in DOMAIN last.block[1].transactions :
          \E t \in Range(last.block[1].transactions[i].outputs) : t.kind = "Transfer"
    /\ \E i \in DOMAIN last.block[1].transactions :
          \E t \in Range(last.block[1].transactions[i].outputs) : t.kind = "Generation"

\* C22: search_latest_block answers None on an empty ledger and otherwise a
\* block of maximum height among the blocks of the ledger; which block it
\* answers is determined by the entries the ledger was built by, so that two
\* ledgers built by the same entries give the same answer
C22_LatestBlock ==
    LET latest == search_latest_block(block_tree, digest_map) IN
    /\ block_tree.nodes = <<>> => latest = {}
    /\ block_tree.nodes # <<>> =>
          /\ latest # {}
          /\ \A id \in latest : \A other \in NodeIds(block_tree) :
                block_tree.nodes[other].data.height <= block_tree.nodes[id].data.height
    /\ \A id, other \in latest : id = other

\* C23: for a digest of the ledger upstream_chain_from yields the block of that
\* digest, then its parent, and so on up to the root: height + 1 blocks whose
\* heights go down by one to 0; for any other digest it yields nothing
C23_UpstreamChain ==
    last.op = "upstream_chain_from" =>
        IF HoldsDigest(block_tree, last.digest)
        THEN /\ last.chain # <<>>
             /\ last.chain[1].digest = last.digest
             /\ Len(last.chain) = last.chain[1].height + 1
             /\ \A k \in DOMAIN last.chain :
                   last.chain[k].height = last.chain[1].height - (k - 1)
             /\ \A k \in 1..(Len(last.chain) - 1) :
                   last.chain[k + 1].digest = last.chain[k].previous_digest
             /\ last.chain[Len(last.chain)] = block_tree.nodes[block_tree.root].data
        ELSE last.chain = <<>>

\* the chain from a block of height 2 has been walked down to the root
C23_Witness ==
    /\ last.op = "upstream_chain_from"
    /\ Len(last.chain) = 3
    /\ last.chain[1].height = 2
    /\ last.chain[1].digest = last.digest
    /\ last.chain[3] = block_tree.nodes[block_tree.root].data

\* the inputs and the outputs of the blocks from the root down to node id, in
\* the order of the chain
PathTransitions(tree, id) ==
    LET chain == ChainTo(tree, id)
        of(tx) == [i \in DOMAIN tx.inputs |-> [io |-> "in", transition |-> tx.inputs[i]]]
                      \o [i \in DOMAIN tx.outputs |->
                              [io |-> "out", transition |-> tx.outputs[i]]]
    IN Flatten([k \in DOMAIN chain |->
           Flatten([i \in DOMAIN tree.nodes[chain[k]].data.transactions |->
                       of(tree.nodes[chain[k]].data.transactions[i])])])

\* C24: build_utxos(tip, holder) returns exactly the transitions received by
\* holder that are an output of a block on the path from the root to tip and
\* are not an input at a later place of that path, whatever else the ledger
\* holds
C24_BuildUtxos ==
    last.op = "build_utxos" =>
        LET events == PathTransitions(block_tree, last.tip) IN
        Range(last.utxos) =
            { events[i].transition : i \in
                { i \in DOMAIN events :
                    /\ events[i].io = "out"
                    /\ events[i].transition.receiver = last.holder
                    /\ \A j \in (i + 1)..Len(events) :
                          ~(events[j].io = "in"
                            /\ events[j].transition = events[i].transition) } }

----------------------------------------------------------------------------
(* The seven tasks of the full node (fullnode/src/main.rs) around the two   *)
(* Mutex and the block-publish channel.  A step runs a task up to the point *)
(* where it next drops a guard, awaits or has to lock; a step that begins   *)
(* with lock() is taken when the Mutex is free, and the task holds the      *)
(* guard from that step to the step that drops it.  A sleep that is         *)
(* followed by lock() is part of the wait for the lock.                     *)

MaxMempool == 1
ChannelCapacity == 1
MaxNodeBlocks == 2

ledger == <<block_tree, digest_map>>
settings == <<overflow_checks, mined, last, mine_genesis_block>>

\* the task moves on with new local variables
Goto(t, to, locals) ==
    /\ pc' = [pc EXCEPT ![t] = to]
    /\ local' = [local EXCEPT ![t] = locals]

\* Mutex::lock().expect("Lock failure") of task t returns the guard of m
Guard(t, m) ==
    /\ mutex[m] = "none"
    /\ mutex' = [mutex EXCEPT ![m] = t]

\* the MutexGuard is dropped
Unlock(m) == mutex' = [mutex EXCEPT ![m] = "none"]

\* the task waits at `at` for the guard of m
Lock(t, at, m, to) ==
    /\ pc[t] = at
    /\ Guard(t, m)
    /\ pc' = [pc EXCEPT ![t] = to]
    /\ UNCHANGED <<ledger, settings, incoming_transactions, local, publish_channel>>

\* a ledger lock that ends in Ledger::entry of block is taken up while the
\* ledger of the model has room for limit blocks, or holds the block already
Room(block, limit) ==
    Len(block_tree.nodes) < limit \/ HoldsDigest(block_tree, block.digest)

\* the block the BlockPublisher is handing to the transport comes back to the
\* subscriber of the same topic
Echoes ==
    IF pc["block_publisher"] = "publish"
    THEN {DeserializeBlock(SerializeBlock(local["block_publisher"].block))}
    ELSE {}

\* the blocks of the ledger, as another node publishes them again
Repeats == {DeserializeBlock(SerializeBlock(block_tree.nodes[p].data)) : p \in NodeIds(block_tree)}

(* spawn_transaction_subscriber *)

\* subscriber.recv().await returned transaction; transaction.verify(); lock()
TransactionReceived(transaction) ==
    /\ pc["transaction_subscriber"] = "recv"
    /\ Len(incoming_transactions) < MaxMempool
    /\ IF TransactionVerify(transaction, overflow_checks) = Ok
       THEN /\ Guard("transaction_subscriber", "incoming_transactions")
            /\ Goto("transaction_subscriber", "push", [transaction |-> transaction])
       ELSE /\ Goto("transaction_subscriber", "recv", [denied |-> transaction])
            /\ UNCHANGED mutex
    /\ UNCHANGED <<ledger, settings, incoming_transactions, publish_channel>>

\* push, then sort_by_key(Transaction::timestamp), under the guard
TransactionQueued ==
    /\ pc["transaction_subscriber"] = "push"
    /\ incoming_transactions' =
           SortedByTimestamp(<<>>, Append(incoming_transactions,
                                          local["transaction_subscriber"].transaction))
    /\ Unlock("incoming_transactions")
    /\ Goto("transaction_subscriber", "recv", <<>>)
    /\ UNCHANGED <<ledger, settings, publish_channel>>

(* spawn_block_subscriber *)

\* subscriber.recv().await returned block; block_subscription_event locks the ledger
BlockReceived(block, limit) ==
    /\ pc["block_subscriber"] = "recv"
    /\ Room(block, limit)
    /\ Guard("block_subscriber", "ledger")
    /\ Goto("block_subscriber", "event", [block |-> block])
    /\ UNCHANGED <<ledger, settings, incoming_transactions, publish_channel>>

\* block_subscription_event that hands its guard back to its caller
BlockEntered_keeping_guard(block, e) ==
    /\ block_tree' = e.tree
    /\ digest_map' = e.map
    /\ UNCHANGED mutex
    /\ IF e.res = Ok \/ e.res = Err("DuplicatedBlock")
       THEN Goto("block_subscriber", "lock_clear", [block |-> block, entry |-> e.res])
       ELSE Goto("block_subscriber", "recv", <<>>)
    /\ UNCHANGED <<settings, incoming_transactions, publish_channel>>

\* block_subscription_event under its guard; e is what ledger.entry(verify_block(..)?)
\* made of the ledger.  DuplicatedBlock is answered Ok(()).
BlockEntered(block, e) ==
    /\ block_tree' = e.tree
    /\ digest_map' = e.map
    /\ Unlock("ledger")
    /\ IF e.res = Ok \/ e.res = Err("DuplicatedBlock")
       THEN Goto("block_subscriber", "lock_clear", [block |-> block, entry |-> e.res])
       ELSE Goto("block_subscriber", "recv", <<>>)
    /\ UNCHANGED <<settings, incoming_transactions, publish_channel>>

BlockEvent ==
    /\ pc["block_subscriber"] = "event"
    /\ BlockEntered(local["block_subscriber"].block,
                    EntryOf(verify_block(local["block_subscriber"].block, block_tree,
                                         digest_map, overflow_checks),
                            block_tree, digest_map))

\* incoming_transactions.lock().expect("Lock failure").clear() of task t
Clear(t, at, to) ==
    /\ pc[t] = at
    /\ incoming_transactions' = <<>>
    /\ Unlock("incoming_transactions")
    /\ pc' = [pc EXCEPT ![t] = to]
    /\ UNCHANGED <<ledger, settings, local, publish_channel>>

(* spawn_block_height_publisher *)

\* the height of the latest block, genesis for an empty ledger; the guard is a
\* temporary of the `let height` statement.  The height goes to the transport
\* and nowhere else.
HeightRead ==
    /\ pc["block_height_publisher"] = "height"
    /\ Unlock("ledger")
    /\ Goto("block_height_publisher", "publish", <<>>)
    /\ UNCHANGED <<ledger, settings, incoming_transactions, publish_channel>>

\* height_publisher.publish(&height).await, then sleep(60 s).await
HeightPublished ==
    /\ pc["block_height_publisher"] = "publish"
    /\ Goto("block_height_publisher", "lock", <<>>)
    /\ UNCHANGED <<ledger, settings, incoming_transactions, mutex, publish_channel>>

(* spawn_block_height_subscriber *)

\* height_subscriber.recv().await returned other_node_height; lock()
HeightReceived(other_node_height) ==
    /\ pc["block_height_subscriber"] = "recv"
    /\ Guard("block_height_subscriber", "ledger")
    /\ Goto("block_height_subscriber", "compare", [other_node_height |-> other_node_height])
    /\ UNCHANGED <<ledger, settings, incoming_transactions, publish_channel>>

\* the match on search_latest_block under its guard, and the comparison
HeightCompared ==
    /\ pc["block_height_subscriber"] = "compare"
    /\ Unlock("ledger")
    /\ IF digest_map = <<>> THEN Goto("block_height_subscriber", "recv", <<>>)
       ELSE \E id \in search_latest_block(block_tree, digest_map) :
               IF local["block_height_subscriber"].other_node_height
                      >= block_tree.nodes[id].data.height
               THEN Goto("block_height_subscriber", "recv", <<>>)
               ELSE Goto("block_height_subscriber", "lock_chain", [current_height |-> 0])
    /\ UNCHANGED <<ledger, settings, incoming_transactions, publish_channel>>

\* the latest block the HashMap gives, 0 for None
Tips == IF digest_map = <<>> THEN {0} ELSE search_latest_block(block_tree, digest_map)

\* the block of the chain that is found, with the guard bound to a variable
\* that lives to the end of the loop body
ChainBlockFound_under_guard(tip) ==
    /\ pc["block_height_subscriber"] = "find"
    /\ UNCHANGED mutex
    /\ LET chain == IF tip = 0 THEN <<>>
                    ELSE upstream_chain_from(block_tree, digest_map,
                                             block_tree.nodes[tip].data.digest)
           found == {k \in DOMAIN chain : block_tree.nodes[chain[k]].data.height
                        = local["block_height_subscriber"].current_height}
       IN IF found = {} THEN Goto("block_height_subscriber", "recv", <<>>)
          ELSE Goto("block_height_subscriber", "send",
                    [current_height |-> local["block_height_subscriber"].current_height,
                     block |-> block_tree.nodes[
                         chain[CHOOSE k \in found : \A j \in found : k <= j]].data])
    /\ UNCHANGED <<ledger, settings, incoming_transactions, publish_channel>>

\* search_latest_chain().find(|block| block.height() == current_height).cloned()
\* from the tip the HashMap gave
ChainBlockFound(tip) ==
    /\ pc["block_height_subscriber"] = "find"
    /\ Unlock("ledger")
    /\ LET chain == IF tip = 0 THEN <<>>
                    ELSE upstream_chain_from(block_tree, digest_map,
                                             block_tree.nodes[tip].data.digest)
           found == {k \in DOMAIN chain : block_tree.nodes[chain[k]].data.height
                        = local["block_height_subscriber"].current_height}
       IN IF found = {} THEN Goto("block_height_subscriber", "recv", <<>>)
          ELSE Goto("block_height_subscriber", "send",
                    [current_height |-> local["block_height_subscriber"].current_height,
                     block |-> block_tree.nodes[
                         chain[CHOOSE k \in found : \A j \in found : k <= j]].data])
    /\ UNCHANGED <<ledger, settings, incoming_transactions, publish_channel>>

\* publish_sender.send(block).await of task t: it waits while the channel
\* holds as many blocks as mpsc::channel was given
Send(t, at, to, locals, capacity) ==
    /\ pc[t] = at
    /\ Len(publish_channel) < capacity
    /\ publish_channel' = Append(publish_channel, [from |-> t, block |-> local[t].block])
    /\ Goto(t, to, locals)
    /\ UNCHANGED <<ledger, settings, incoming_transactions, mutex>>

(* spawn_mining_join_handle *)

\* incoming_transactions.lock().expect("Lock failure").to_vec()
MempoolSnapshot ==
    /\ pc["mining"] = "to_vec"
    /\ Unlock("incoming_transactions")
    /\ Goto("mining", "lock_latest", [transactions |-> incoming_transactions])
    /\ UNCHANGED <<ledger, settings, incoming_transactions, publish_channel>>

\* the Miner from BlockSource::new on: b is what try_into_block made of src
MiningSealed(src, b) ==
    IF src.res # Ok \/ b.res # Ok
    THEN Goto("mining", "snapshot", <<>>)
    ELSE Goto("mining", "lock_verify", [block |-> b.block])

\* BlockSource::new and one try_into_block whatever the height and the snapshot
MiningAttempt_unguarded(next_height, previous_digest, nonce, now) ==
    LET src == BlockSourceNew(next_height, local["mining"].transactions,
                              previous_digest, DIFFICULTY, nonce, "M",
                              block_coin_generation_rule, now, overflow_checks)
    IN MiningSealed(src, IF src.res = Ok THEN try_into_block(src, overflow_checks)
                         ELSE src)

\* the two guards, BlockSource::new and one try_into_block
MiningAttempt(next_height, previous_digest, nonce, now) ==
    IF next_height = 0 /\ ~mine_genesis_block
    THEN Goto("mining", "snapshot", <<>>)
    ELSE IF next_height > 0 /\ local["mining"].transactions = <<>>
    THEN Goto("mining", "snapshot", <<>>)
    ELSE LET src == BlockSourceNew(next_height, local["mining"].transactions,
                                   previous_digest, DIFFICULTY, nonce, "M",
                                   block_coin_generation_rule, now, overflow_checks)
         IN MiningSealed(src, IF src.res = Ok THEN try_into_block(src, overflow_checks)
                              ELSE src)

\* the match on search_latest_block under its guard, then the attempt
LatestBlockRead(nonce, now) ==
    /\ pc["mining"] = "latest"
    /\ Unlock("ledger")
    /\ IF digest_map = <<>> THEN MiningAttempt(0, EmptyDigest, nonce, now)
       ELSE \E id \in search_latest_block(block_tree, digest_map) :
               MiningAttempt(block_tree.nodes[id].data.height + 1,
                             block_tree.nodes[id].data.digest, nonce, now)
    /\ UNCHANGED <<ledger, settings, incoming_transactions, publish_channel>>

\* verify_block_after_mining under its guard, with an Err arm that goes on to
\* the sleep at once
MinedBlockVerified_without_clear(v) ==
    /\ Unlock("ledger")
    /\ IF v.res = Ok
       THEN Goto("mining", "send", [block |-> v.block])
       ELSE Goto("mining", "snapshot", <<>>)
    /\ UNCHANGED <<ledger, settings, incoming_transactions, publish_channel>>

\* verify_block_after_mining under its guard; v is its result
MinedBlockVerified(v) ==
    /\ Unlock("ledger")
    /\ IF v.res = Ok
       THEN Goto("mining", "send", [block |-> v.block])
       ELSE Goto("mining", "lock_discard", <<>>)
    /\ UNCHANGED <<ledger, settings, incoming_transactions, publish_channel>>

\* the Miner's verification without Ledger::verify_block: stages TR, X and D
\* only, the block marked as if stages P and U had passed
MinedBlockVerify_without_ledger ==
    /\ pc["mining"] = "verify"
    /\ MinedBlockVerified(
           AndThen(AndThen(AndThen(
               verify_transaction_relation(local["mining"].block,
                                           block_coin_generation_rule, overflow_checks),
               LAMBDA b : verify_difficulty(b, DIFFICULTY, overflow_checks)),
               LAMBDA b : verify_digest(b)),
               LAMBDA b : Done(Verified(Verified(b, "VP"), "VU"))))

MinedBlockVerify ==
    /\ pc["mining"] = "verify"
    /\ MinedBlockVerified(verify_block_after_mining(local["mining"].block, block_tree,
                                                    digest_map, overflow_checks))

\* ledger.entry(block.clone()) under its guard; an error is logged.  Then
\* sleep(10 ms).await and the next turn of the loop.
MinedBlockEntered(e) ==
    /\ block_tree' = e.tree
    /\ digest_map' = e.map
    /\ Unlock("ledger")
    /\ Goto("mining", "snapshot", <<>>)
    /\ UNCHANGED <<settings, incoming_transactions, publish_channel>>

MinedBlockEntry ==
    /\ pc["mining"] = "entry"
    /\ MinedBlockEntered(LedgerEntry(block_tree, digest_map, local["mining"].block))

(* spawn_block_publisher *)

\* receiver.recv().await on a channel that hands out the newest block first
BlockTaken_newest_first ==
    /\ pc["block_publisher"] = "recv"
    /\ publish_channel # <<>>
    /\ publish_channel' = SubSeq(publish_channel, 1, Len(publish_channel) - 1)
    /\ Goto("block_publisher", "publish",
            [block |-> publish_channel[Len(publish_channel)].block])
    /\ UNCHANGED <<ledger, settings, incoming_transactions, mutex>>

\* receiver.recv().await returned a block
BlockTaken ==
    /\ pc["block_publisher"] = "recv"
    /\ publish_channel # <<>>
    /\ publish_channel' = Tail(publish_channel)
    /\ Goto("block_publisher", "publish", [block |-> Head(publish_channel).block])
    /\ UNCHANGED <<ledger, settings, incoming_transactions, mutex>>

\* publisher.publish(&block).await
BlockPublished ==
    /\ pc["block_publisher"] = "publish"
    /\ Goto("block_publisher", "recv", <<>>)
    /\ UNCHANGED <<ledger, settings, incoming_transactions, mutex, publish_channel>>

(* spawn_utxo_pubsub *)

\* subscriber.recv().await returned address; lock()
UtxoRequested(address) ==
    /\ pc["utxo_pubsub"] = "recv"
    /\ Guard("utxo_pubsub", "ledger")
    /\ Goto("utxo_pubsub", "build", [address |-> address])
    /\ UNCHANGED <<ledger, settings, incoming_transactions, publish_channel>>

\* search_latest_block and build_utxos under the guard of the block; the
\* list goes to the transport and nowhere else
UtxosBuilt ==
    /\ pc["utxo_pubsub"] = "build"
    /\ Unlock("ledger")
    /\ Goto("utxo_pubsub", "publish", <<>>)
    /\ UNCHANGED <<ledger, settings, incoming_transactions, publish_channel>>

\* publisher.publish(&utxos).await
UtxosPublished ==
    /\ pc["utxo_pubsub"] = "publish"
    /\ Goto("utxo_pubsub", "recv", <<>>)
    /\ UNCHANGED <<ledger, settings, incoming_transactions, mutex, publish_channel>>

(* The tasks, by what reaches them from outside *)

TransactionSubscriber(transactions) ==
    \/ \E transaction \in transactions : TransactionReceived(transaction)
    \/ TransactionQueued

BlockSubscriber(blocks, limit) ==
    \/ \E block \in blocks \cup Echoes \cup Repeats : BlockReceived(block, limit)
    \/ BlockEvent
    \/ Lock("block_subscriber", "lock_clear", "incoming_transactions", "clear")
    \/ Clear("block_subscriber", "clear", "recv")

BlockHeightPublisher ==
    \/ Lock("block_height_publisher", "lock", "ledger", "height")
    \/ HeightRead
    \/ HeightPublished

BlockHeightSubscriber(heights, capacity) ==
    \/ \E other_node_height \in heights : HeightReceived(other_node_height)
    \/ HeightCompared
    \/ Lock("block_height_subscriber", "lock_chain", "ledger", "find")
    \/ \E tip \in Tips : ChainBlockFound(tip)
    \/ Send("block_height_subscriber", "send", "lock_chain",
            [current_height |-> local["block_height_subscriber"].current_height + 1],
            capacity)

Mining(nonces, times, limit, capacity) ==
    \/ Lock("mining", "snapshot", "incoming_transactions", "to_vec")
    \/ MempoolSnapshot
    \/ Lock("mining", "lock_latest", "ledger", "latest")
    \/ \E nonce \in nonces, t \in times : LatestBlockRead(nonce, <<t, t, t>>)
    \/ Lock("mining", "lock_verify", "ledger", "verify")
    \/ MinedBlockVerify
    \/ Send("mining", "send", "lock_clear", local["mining"], capacity)
    \/ Lock("mining", "lock_clear", "incoming_transactions", "clear")
    \/ Clear("mining", "clear", "lock_entry")
    \/ /\ pc["mining"] = "lock_entry"
       /\ Room(local["mining"].block, limit)
       /\ Lock("mining", "lock_entry", "ledger", "entry")
    \/ MinedBlockEntry
    \/ Lock("mining", "lock_discard", "incoming_transactions", "discard")
    \/ Clear("mining", "discard", "snapshot")

BlockPublisher ==
    \/ BlockTaken
    \/ BlockPublished

UtxoPubsub ==
    \/ \E address \in {"A"} : UtxoRequested(address)
    \/ UtxosBuilt
    \/ UtxosPublished

NodeInit ==
    /\ block_tree = EmptyTree
    /\ digest_map = <<>>
    /\ overflow_checks = FALSE
    /\ mined = Idle
    /\ last = [op |-> "new", res |-> Ok, block |-> <<>>]
    /\ \E opt_in \in BOOLEAN : Spawned(opt_in)

(* All seven tasks.  The wire brings a transaction that a block can hold,   *)
(* one that spends a coin the replay of the Miner's block does not know,    *)
(* and one genesis block.                                                   *)

NodeNext ==
    \/ TransactionSubscriber({Spend})
    \/ BlockSubscriber({GenesisBlock(<<CoinbaseA>>, 1)}
                           \cup {LinkedBlock(block_tree, p, <<CoinbaseB(1)>>, MaxTime) :
                                     p \in NodeIds(block_tree)},
                       MaxNodeBlocks)
    \/ BlockHeightPublisher
    \/ BlockHeightSubscriber(0..(MaxNodeBlocks - 1), ChannelCapacity)
    \/ Mining(Nonces, {MaxTime}, MaxNodeBlocks, ChannelCapacity)
    \/ BlockPublisher
    \/ UtxoPubsub

NodeSpec == NodeInit /\ [][NodeNext]_vars

(* The four tasks around the mempool, the ledger and the channel, with more *)
(* on the wire: transactions a block can and cannot hold, one that does not *)
(* verify, a genesis block at two times and one that does not verify        *)

MiningNext ==
    \/ TransactionSubscriber({CoinbaseB(1), Spend, Forged})
    \/ BlockSubscriber({GenesisBlock(<<CoinbaseA>>, t) : t \in Times}
                           \cup {GenesisBlock(<<Forged>>, 1)},
                       MaxNodeBlocks)
    \/ Mining(Nonces, {MaxTime}, MaxNodeBlocks, ChannelCapacity)
    \/ BlockPublisher

MiningSpec == NodeInit /\ [][MiningNext]_vars

----------------------------------------------------------------------------
(* Properties of the tasks of the full node *)

\* C25: in every interleaving of the seven tasks, no task holds the guard of
\* the ledger and the guard of the mempool at the same time
C25_NeverBothGuards ==
    \A t \in Tasks : ~(mutex["ledger"] = t /\ mutex["incoming_transactions"] = t)

\* both guards are held, each by one of the two tasks that use both Mutex
C25_Witness ==
    /\ mutex["ledger"] = "mining"
    /\ mutex["incoming_transactions"] = "block_subscriber"

\* where each task awaits: the transport, the channel or a sleep (a sleep that
\* lock() follows is at the place of the lock)
SuspensionPoints ==
    [t \in Tasks |->
        CASE t = "transaction_subscriber" -> {"recv"}
          [] t = "block_subscriber" -> {"recv"}
          [] t = "block_height_publisher" -> {"publish", "lock"}
          [] t = "block_height_subscriber" -> {"recv", "send", "lock_chain"}
          [] t = "mining" -> {"send", "snapshot"}
          [] t = "block_publisher" -> {"recv", "publish"}
          [] t = "utxo_pubsub" -> {"recv", "publish"}]

\* where each task calls lock()
LockPoints ==
    [t \in Tasks |->
        CASE t = "block_subscriber" -> {"lock_clear"}
          [] t = "block_height_publisher" -> {"lock"}
          [] t = "block_height_subscriber" -> {"lock_chain"}
          [] t = "mining" -> {"snapshot", "lock_latest", "lock_verify", "lock_clear",
                              "lock_entry", "lock_discard"}
          [] OTHER -> {}]

\* C26: no task is at a suspension point while it holds a guard; the task that
\* holds a guard waits for nothing, neither an await nor another lock(), so
\* that no task waits for a Mutex forever
C26_NoAwaitUnderGuard ==
    \A t \in Tasks, m \in Mutexes :
        mutex[m] = t => pc[t] \notin SuspensionPoints[t] \cup LockPoints[t]

\* the Miner waits for the ledger that the chain publisher holds, while the
\* block publisher awaits the transport
C26_Witness ==
    /\ pc["mining"] = "lock_verify"
    /\ mutex["ledger"] = "block_height_subscriber"
    /\ pc["block_publisher"] = "publish"

\* C27: handling a message that fails changes neither cell: a transaction that
\* does not verify leaves the mempool, a block that is refused leaves the
\* ledger and the mempool, and the block subscriber clears the mempool only
\* for a block that was newly inserted
C27_FailureChangesNothing ==
    [][/\ (pc["transaction_subscriber"] = "recv" /\ pc'["transaction_subscriber"] = "recv"
           /\ local'["transaction_subscriber"] # local["transaction_subscriber"])
          => incoming_transactions' = incoming_transactions
       /\ (pc["block_subscriber"] = "event" /\ pc'["block_subscriber"] = "recv")
          => /\ block_tree' = block_tree
             /\ digest_map' = digest_map
             /\ incoming_transactions' = incoming_transactions
       /\ (pc["block_subscriber"] = "event" /\ pc'["block_subscriber"] = "lock_clear"
           /\ local'["block_subscriber"].entry # Ok)
          => /\ block_tree' = block_tree
             /\ digest_map' = digest_map
       /\ (pc["block_subscriber"] = "clear" /\ pc'["block_subscriber"] = "recv"
           /\ local["block_subscriber"].entry # Ok)
          => incoming_transactions' = incoming_transactions]_vars

\* C28: every transaction that the clear after a mined block or after a
\* received block removes from the mempool is a transaction of that block
C28_ClearedWereIncluded ==
    [][/\ (pc["mining"] = "clear" /\ pc'["mining"] = "lock_entry")
          => \A i \in DOMAIN incoming_transactions :
                incoming_transactions[i] \in Range(local["mining"].block.transactions)
       /\ (pc["block_subscriber"] = "clear" /\ pc'["block_subscriber"] = "recv")
          => \A i \in DOMAIN incoming_transactions :
                incoming_transactions[i]
                    \in Range(local["block_subscriber"].block.transactions)]_vars

\* C29: every block the Miner has put on the publish channel is in the ledger
C29_InsertedBeforeSent ==
    \A i \in DOMAIN publish_channel :
        publish_channel[i].from = "mining"
            => HoldsDigest(block_tree, publish_channel[i].block.digest)

\* the block carries the coinbase of this node's address
SelfMined(block) ==
    \E i \in DOMAIN block.transactions : block.transactions[i].contractor = "M"

\* a block at height 0 needs the opt-in; a block above it holds a transaction
\* besides the coinbase
Permitted(block) ==
    /\ block.height = 0 => mine_genesis_block
    /\ block.height > 0 => Len(block.transactions) >= 2

\* C30: the Miner attempts no block at height 0 without the opt-in and no
\* block above height 0 from an empty snapshot, so every self-mined block of
\* the ledger is permitted
C30_MinerGuards ==
    /\ pc["mining"] \in {"lock_verify", "verify", "send", "lock_clear", "clear",
                         "lock_entry", "entry"}
          => Permitted(local["mining"].block)
    /\ \A id \in NodeIds(block_tree) :
          SelfMined(block_tree.nodes[id].data) => Permitted(block_tree.nodes[id].data)

\* a node without the opt-in has mined a block of height 1 over the genesis
\* block it received
C30_Witness ==
    /\ ~mine_genesis_block
    /\ \E id \in NodeIds(block_tree) :
          /\ SelfMined(block_tree.nodes[id].data)
          /\ block_tree.nodes[id].data.height = 1
          /\ Len(block_tree.nodes[id].data.transactions) >= 2

\* C31: when the block the Miner sealed fails verify_block_after_mining, the
\* Miner goes to the clear of the mempool and to nothing else: from the
\* verification to the next turn of the loop it leaves the ledger and the
\* publish channel as they are, and the mempool is empty when the turn ends
C31_FailedBlockClearsMempool ==
    [][/\ (pc["mining"] = "verify" /\ pc'["mining"] # "verify"
           /\ verify_block_after_mining(local["mining"].block, block_tree, digest_map,
                                        overflow_checks).res # Ok)
          => /\ pc'["mining"] = "lock_discard"
             /\ UNCHANGED <<block_tree, digest_map, publish_channel, incoming_transactions>>
       /\ (pc["mining"] = "lock_discard" /\ pc'["mining"] # "lock_discard")
          => /\ pc'["mining"] = "discard"
             /\ UNCHANGED <<block_tree, digest_map, publish_channel, incoming_transactions>>
       /\ (pc["mining"] = "discard" /\ pc'["mining"] # "discard")
          => /\ pc'["mining"] = "snapshot"
             /\ incoming_transactions' = <<>>
             /\ UNCHANGED <<block_tree, digest_map, publish_channel>>]_vars

\* the Miner holds the guard of a mempool that is not empty, after a block
\* that failed verification
C31_Witness ==
    /\ pc["mining"] = "discard"
    /\ mutex["incoming_transactions"] = "mining"
    /\ incoming_transactions # <<>>

----------------------------------------------------------------------------
(* The three tasks that move blocks: the block subscriber, the chain        *)
(* publisher (spawn_block_height_subscriber) and the block publisher, with  *)
(* a ledger large enough for two branches of different length.  Another     *)
(* node sends a genesis block and, over every block of the ledger, two      *)
(* children stamped one tick after their parent.                            *)

MaxForkBlocks == 4
MaxQueued == 2

ForkNext ==
    \/ BlockSubscriber({GenesisBlock(<<CoinbaseA>>, 1)}
                           \cup {LinkedBlock(block_tree, p, <<CoinbaseB(t)>>,
                                             block_tree.nodes[p].data.timestamp + 1) :
                                     p \in NodeIds(block_tree), t \in Times},
                       MaxForkBlocks)
    \/ BlockHeightSubscriber({0}, MaxQueued)
    \/ BlockPublisher

ForkInit == NodeInit /\ ~mine_genesis_block

ForkSpec == ForkInit /\ [][ForkNext]_vars

\* C32: the blocks the chain publisher sends one after the other, at one
\* height and at the next, are parent and child: each block's previous_digest
\* is the digest of the block sent just before it
C32_SentChain ==
    \A i \in 1..(Len(publish_channel) - 1) :
        (/\ publish_channel[i].from = "block_height_subscriber"
         /\ publish_channel[i + 1].from = "block_height_subscriber"
         /\ publish_channel[i + 1].block.height = publish_channel[i].block.height + 1)
            => publish_channel[i + 1].block.previous_digest = publish_channel[i].block.digest

----------------------------------------------------------------------------
(* The two senders of the publish channel, the Miner and the chain          *)
(* publisher, with the block publisher that empties it and the two          *)
(* subscribers that feed the Miner; the channel holds MaxQueued blocks      *)

ChannelNext ==
    \/ TransactionSubscriber({CoinbaseB(1), Spend})
    \/ BlockSubscriber({GenesisBlock(<<CoinbaseA>>, 1)}, MaxNodeBlocks)
    \/ BlockHeightSubscriber({0}, MaxQueued)
    \/ Mining(Nonces, {MaxTime}, MaxNodeBlocks, MaxQueued)
    \/ BlockPublisher

ChannelSpec == NodeInit /\ [][ChannelNext]_vars

\* the tasks that hold a Sender of the publish channel
Senders == {"mining", "block_height_subscriber"}

\* C33: the publish channel never holds more blocks than its capacity; a
\* sender that finds it full stays at its send, holding no guard, until the
\* block publisher has taken a block; a block enters at the back, and the
\* block publisher takes the block at the front, which it publishes before
\* it takes the next
C33_BoundedFifoChannel ==
    [][/\ Len(publish_channel) <= MaxQueued
       /\ Len(publish_channel') <= MaxQueued
       /\ \A t \in Senders :
             pc[t] = "send" => /\ \A m \in Mutexes : mutex[m] # t
                               /\ Len(publish_channel) = MaxQueued => pc'[t] = "send"
       /\ publish_channel' # publish_channel
             => \/ \E t \in Senders :
                      /\ pc[t] = "send" /\ pc'[t] # "send"
                      /\ publish_channel'
                             = Append(publish_channel, [from |-> t, block |-> local[t].block])
                \/ /\ pc["block_publisher"] = "recv" /\ pc'["block_publisher"] = "publish"
                   /\ local'["block_publisher"].block = Head(publish_channel).block
                   /\ publish_channel' = Tail(publish_channel)
       /\ pc["block_publisher"] = "publish"
             => \/ local'["block_publisher"] = local["block_publisher"]
                \/ pc'["block_publisher"] = "recv" /\ publish_channel' = publish_channel]_vars

\* the Miner waits at its send while the channel is full of two different
\* blocks, one from each sender, and the block publisher is handing a block
\* to the transport
C33_Witness ==
    /\ pc["mining"] = "send"
    /\ Len(publish_channel) = MaxQueued
    /\ \E i, j \in DOMAIN publish_channel :
          /\ publish_channel[i].from = "mining"
          /\ publish_channel[j].from = "block_height_subscriber"
          /\ publish_channel[i].block # publish_channel[j].block
    /\ pc["block_publisher"] = "publish"

----------------------------------------------------------------------------
(* Ledger::entry, Ledger::remove_branch and Ledger::search_latest_block     *)
(* called directly, in any order                                            *)

\* block_tree.get(id).expect("Invalid id") of search_latest_block meets an id
\* of the digest map whose node has left the tree
InvalidId(tree, map) == \E id \in Range(map) : id \notin NodeIds(tree)

\* Ledger::remove_branch(digest); when the root leaves, Tree::root answers
\* None or still from the id it kept
RemoveBranch(dg, root_after) ==
    /\ block_tree' = remove_branch(block_tree, digest_map, dg, root_after).tree
    /\ last' = [op |-> "remove_branch", res |-> Ok, digest |-> dg,
                block |-> IF remove_branch(block_tree, digest_map, dg, root_after).some
                          THEN <<remove_branch(block_tree, digest_map, dg, root_after).block>>
                          ELSE <<>>]
    /\ UNCHANGED <<digest_map, overflow_checks, mined, node_vars>>

\* Ledger::search_latest_block(): the block of node id, or the panic of expect
SearchLatestBlock(id) ==
    /\ last' = IF InvalidId(block_tree, digest_map)
               THEN [op |-> "search_latest_block", res |-> Panic, block |-> <<>>]
               ELSE [op |-> "search_latest_block", res |-> Ok,
                     block |-> IF id = 0 THEN <<>> ELSE <<block_tree.nodes[id].data>>]
    /\ UNCHANGED <<block_tree, digest_map, overflow_checks, mined, node_vars>>

BranchNext ==
    \/ \E height \in Heights, transactions \in {<<CoinbaseA>>, <<CoinbaseB(1)>>},
       previous_digest \in KnownDigests(block_tree) \cup {UnknownDigest} :
       /\ Entry(EntryBlock(height, transactions, previous_digest))
       /\ Len(block_tree'.nodes) <= MaxEntries
    \/ \E dg \in DOMAIN digest_map \cup {UnknownDigest}, root_after \in {0, block_tree.root} :
          RemoveBranch(dg, root_after)
    \/ \E id \in IF digest_map = <<>> \/ InvalidId(block_tree, digest_map) THEN {0}
                 ELSE search_latest_block(block_tree, digest_map) :
          SearchLatestBlock(id)

BranchSpec == Init /\ [][BranchNext]_vars

\* C34: after any sequence of entry and remove_branch calls every digest of
\* the digest map refers to a block that is still in the tree, and
\* search_latest_block keeps working
C34_MapAgreesWithTree ==
    /\ \A dg \in DOMAIN digest_map : digest_map[dg] \in NodeIds(block_tree)
    /\ last.op = "search_latest_block" => last.res # Panic

----------------------------------------------------------------------------
(* Properties of the replay of a chain *)

\* the outputs of the blocks before block k of the replay
IssuedBefore(steps, k) ==
    UNION {Range(BlockOutputs(steps[j])) : j \in 1..(k - 1)}

\* C35: when every earlier block of the chain was pushed and the first input
\* of a block was an output of an earlier block and is no longer unspent,
\* push_block answers DoubleSpending
C35_SpentInputIsDoubleSpending ==
    last.op = "push_block" =>
        \A k \in DOMAIN last.steps :
            (/\ \A j \in 1..(k - 1) : last.steps[j].res = Ok
             /\ last.steps[k].transactions[1].inputs # <<>>
             /\ last.steps[k].transactions[1].inputs[1] \in IssuedBefore(last.steps, k)
             /\ last.steps[k].transactions[1].inputs[1] \notin Range(last.steps[k].before))
                => last.steps[k].res = Err("DoubleSpending")

\* the unspent outputs after the transactions were applied one after the other
RECURSIVE Applied(_, _)
Applied(unspent, transactions) ==
    IF transactions = <<>> THEN unspent
    ELSE Applied((unspent \ Range(Head(transactions).inputs))
                     \cup Range(Head(transactions).outputs),
                 Tail(transactions))

\* C36: push_block is all-or-nothing: a block it refuses leaves the list of
\* unspent outputs exactly as it was, a block it accepts is applied as a
\* whole, and the loop of build_utxos goes on with the next block from there
C36_AllOrNothing ==
    last.op = "push_block" =>
        \A k \in DOMAIN last.steps :
            /\ last.steps[k].res # Ok => last.steps[k].after = last.steps[k].before
            /\ last.steps[k].res = Ok
                  => Range(last.steps[k].after)
                         = Applied(Range(last.steps[k].before), last.steps[k].transactions)
            /\ k > 1 => last.steps[k].before = last.steps[k - 1].after

\* a block whose second transaction fails after its first one issued a coin is
\* skipped, and the two blocks after it are pushed
C36_Witness ==
    /\ last.op = "push_block"
    /\ last.steps[1].res = Err("Unlisted")
    /\ last.steps[1].transactions = <<CoinbaseB(1), Spend>>
    /\ last.steps[2].res = Ok
    /\ last.steps[3].res = Ok
    /\ last.steps[3].after # <<>>

\* C37: two transactions of the same contractor and timestamp whose inputs or
\* outputs differ never have the same signature source, and two blocks whose
\* transaction lists differ never have the same digest source
C37_UnambiguousEncoding ==
    (last.op = "build_signature_source" /\ last.first # last.second)
        => /\ last.sources[1] # last.sources[2]
           /\ last.digest_sources[1] # last.digest_sources[2]

\* C38: a block that verify_difficulty accepts at the difficulty it declares
\* is rejected at that difficulty raised, whatever the difficulty
C38_RaisedRejects ==
    (last.op = "raise" /\ last.res = Ok) => last.res_raised # Ok

\* C38 (amended): a block that declares a difficulty below the greatest one and
\* that verify_difficulty accepts at it is rejected at that difficulty raised
\* with InsufficientDifficulty; raise adds 1 and stays at the greatest
\* difficulty, ease subtracts 1 and stays at 0
C38_RaisedRejectsBelowGreatest ==
    last.op = "raise" =>
        /\ (last.res = Ok /\ last.block.difficulty < CountModulus - 1)
              => last.res_raised = Err("InsufficientDifficulty")
        /\ last.raised = IF last.block.difficulty = CountModulus - 1
                         THEN CountModulus - 1 ELSE last.block.difficulty + 1
        /\ last.eased = IF last.block.difficulty = 0 THEN 0
                        ELSE last.block.difficulty - 1

\* a block of the greatest difficulty but one, with as many leading zero bits,
\* is accepted at it and rejected at the greatest
C38_Witness ==
    /\ last.op = "raise"
    /\ last.block.difficulty = CountModulus - 2
    /\ last.block.difficulty > 0
    /\ last.res = Ok
    /\ last.raised = CountModulus - 1
    /\ last.res_raised = Err("InsufficientDifficulty")

C40_ReplayAgrees ==
    \A id \in NodeIds(block_tree) :
        /\ replay(block_tree, <<>>, ChainTo(block_tree, id)).res = Ok
        /\ transfer_history(block_tree, id).res = Ok

====
